---------------------------- MODULE Spec2Model ----------------------------
(***************************************************************************)
(* A model of the epub2md Markdown cleanup processors                      *)
(* (src/epub2md/processors/cleanup.py, src/epub2md/processors/images.py).  *)
(*                                                                         *)
(* Text is a sequence of one-character strings.  Every regular expression  *)
(* of the source is a matcher  P(s, i)  that returns the index just past   *)
(* the match of the pattern starting at index i of s, or 0 when the        *)
(* pattern does not match there; re.sub and re.findall are the leftmost,   *)
(* non-overlapping scans ReSub and ReCount over such a matcher.            *)
(***************************************************************************)
EXTENDS Integers, Sequences, FiniteSets, TLC

VARIABLES
    content,          \* the text given to the function under study
    parts,            \* the constructs content was written from, when known
    outs,             \* results of its successive applications: [text, count]
    pc,               \* the function under study, or the step clean_markdown is at
    opts,             \* clean_markdown: the five toggles
    cleaned,          \* clean_markdown: the local variable cleaned
    stats,            \* clean_markdown: the statistics dict
    idx,              \* fix_all_image_paths: lines consumed by the for loop
    fixed_lines,      \* fix_all_image_paths: the local variable fixed_lines
    seen_images,      \* fix_all_image_paths: the local variable seen_images
    last_was_image,   \* fix_all_image_paths: the local variable last_was_image
    last_image_file,  \* fix_all_image_paths: last_image_file, <<>> for None
    disk,             \* the images directory: [exists, files, dirs]
    image_files,      \* flatten_images_to_root: the argument image_files
    used_names,       \* flatten_images_to_root: the local variable used_names
    moved_count,      \* flatten_images_to_root: the local variable moved_count
    next_image,       \* flatten_images_to_root: image_files consumed by the loop
    moves,            \* the moves attempted so far: [from, to, ok]
    image_stats,      \* extract_and_process_images: the dict stats
    metadata,         \* generate_frontmatter: the argument metadata
    custom_fields,    \* generate_frontmatter: config's custom_fields, in order
    batch_args,       \* batch_convert: [input_dir, recursive]
    epub_files,       \* batch_convert: the local variable epub_files
    conversion_tasks, \* batch_convert: the local variable conversion_tasks
    results,          \* batch_convert: the local variable results
    failed_count,     \* batch_convert: the local variable failed_count
    batch_stats,      \* batch_convert: the dict returned
    config,           \* the config dict the conversions share
    pandoc_calls      \* the calls of pypandoc.convert_file: [input_file, extra_args]

cleanVars == <<opts, cleaned, stats>>
loopVars == <<idx, fixed_lines, seen_images, last_was_image, last_image_file>>
flattenVars == <<image_files, used_names, moved_count, next_image, moves>>
imageVars == <<disk, flattenVars, image_stats>>
frontVars == <<metadata, custom_fields>>
batchVars == <<batch_args, epub_files, conversion_tasks, results, failed_count, batch_stats,
              config, pandoc_calls>>
otherVars == <<imageVars, frontVars, batchVars>>
vars == <<content, parts, outs, pc, cleanVars, loopVars, otherVars>>

(***************************************************************************)
(* Bounds of the model.                                                    *)
(***************************************************************************)
MaxApply == 2
MaxDivTokens == 5
MaxSpanTokens == 5
MaxHeaderTokens == 4
MaxLinkParts == 3
MaxWsTokens == 5

(***************************************************************************)
(* Characters and character classes (Python's re, str patterns).           *)
(***************************************************************************)
NL == "\n"
\* \s
WS == {" ", "\t", "\n", "\r", "\f"}

\* a position where MULTILINE ^ matches
AtBOL(s, i) == i = 1 \/ (i >= 2 /\ i <= Len(s) + 1 /\ s[i - 1] = NL)
\* a position where MULTILINE $ matches
AtEOL(s, i) == i = Len(s) + 1 \/ (i >= 1 /\ i <= Len(s) /\ s[i] = NL)

LitAt(s, i, lit) ==
    /\ i >= 1
    /\ i + Len(lit) - 1 <= Len(s)
    /\ SubSeq(s, i, i + Len(lit) - 1) = lit

\* the index just past the longest run of characters of C starting at i
RECURSIVE SkipIn(_, _, _)
SkipIn(s, i, C) ==
    IF i <= Len(s) /\ s[i] \in C THEN SkipIn(s, i + 1, C) ELSE i

\* the index just past the longest run of characters outside C starting at i
RECURSIVE SkipNotIn(_, _, _)
SkipNotIn(s, i, C) ==
    IF i <= Len(s) /\ s[i] \notin C THEN SkipNotIn(s, i + 1, C) ELSE i

\* \s*$ (MULTILINE) from i: the greedy run of whitespace, given back one
\* character at a time until the position is an end of line
RECURSIVE WsThenEOL(_, _, _)
WsThenEOL(s, i, e) ==
    IF AtEOL(s, e) THEN e
    ELSE IF e > i THEN WsThenEOL(s, i, e - 1)
    ELSE 0

\* re.sub(pattern, repl, s): leftmost non-overlapping matches of P replaced
RECURSIVE ReSub(_, _, _, _)
ReSub(P(_, _), R(_, _, _), s, i) ==
    IF i > Len(s) THEN <<>>
    ELSE LET e == P(s, i)
         IN  IF e > i THEN R(s, i, e) \o ReSub(P, R, s, e)
             ELSE <<s[i]>> \o ReSub(P, R, s, i + 1)

\* len(pattern.findall(s))
RECURSIVE ReCount(_, _, _)
ReCount(P(_, _), s, i) ==
    IF i > Len(s) THEN 0
    ELSE LET e == P(s, i)
         IN  IF e > i THEN 1 + ReCount(P, s, e)
             ELSE ReCount(P, s, i + 1)

Empty(s, i, e) == <<>>

\* s.split('\n')
RECURSIVE Split(_, _)
Split(s, sep) ==
    LET RECURSIVE Go(_, _)
        Go(i, cur) ==
            IF i > Len(s) THEN <<cur>>
            ELSE IF s[i] = sep THEN <<cur>> \o Go(i + 1, <<>>)
            ELSE Go(i + 1, Append(cur, s[i]))
    IN  Go(1, <<>>)

\* sep.join(ls)
RECURSIVE Join(_, _)
Join(ls, sep) ==
    IF Len(ls) = 0 THEN <<>>
    ELSE IF Len(ls) = 1 THEN ls[1]
    ELSE ls[1] \o <<sep>> \o Join(Tail(ls), sep)

\* every text made of at most n of the given tokens
RECURSIVE Texts(_, _)
Texts(tokens, n) ==
    IF n = 0 THEN {<<>>}
    ELSE LET shorter == Texts(tokens, n - 1)
         IN  shorter \cup {d \o t : d \in shorter, t \in tokens}

(***************************************************************************)
(* remove_div_blocks_from_content                                          *)
(***************************************************************************)
\* r'^::: \{[^}]*\}\s*$', re.MULTILINE
div_open_pattern(s, i) ==
    IF AtBOL(s, i) /\ LitAt(s, i, <<":", ":", ":", " ", "{">>)
    THEN LET j == SkipNotIn(s, i + 5, {"}"})
         IN  IF j <= Len(s)
             THEN WsThenEOL(s, j + 1, SkipIn(s, j + 1, WS))
             ELSE 0
    ELSE 0

\* the closing pattern without its \s*: r'^:::$'
div_close_exact(s, i) ==
    IF AtBOL(s, i) /\ LitAt(s, i, <<":", ":", ":">>) /\ AtEOL(s, i + 3)
    THEN i + 3
    ELSE 0

\* r'^:::\s*$', re.MULTILINE
div_close_pattern(s, i) ==
    IF AtBOL(s, i) /\ LitAt(s, i, <<":", ":", ":">>)
    THEN WsThenEOL(s, i + 3, SkipIn(s, i + 3, WS))
    ELSE 0

remove_div_blocks_from_content(s) ==
    LET count == ReCount(div_open_pattern, s, 1)
                 + ReCount(div_close_pattern, s, 1)
        s1 == ReSub(div_open_pattern, Empty, s, 1)
        s2 == ReSub(div_close_pattern, Empty, s1, 1)
    IN  [text |-> s2, count |-> count]

DivTokens ==
    { <<":", ":", ":">>, <<":", ":", ":", " ", "{">>, <<"}">>, <<"a">>,
      <<" ">>, <<NL>> }

DivDocs == Texts(DivTokens, MaxDivTokens)

\* the state of the variables of the functions that are not under study
AllOn ==
    [remove_div_blocks |-> TRUE, remove_spans |-> TRUE, fix_headers |-> TRUE,
     normalize_whitespace |-> TRUE, fix_links |-> TRUE]

ZeroStats ==
    [divs_removed |-> 0, spans_removed |-> 0, headers_fixed |-> 0,
     links_fixed |-> 0]

CleanIdle == opts = AllOn /\ cleaned = <<>> /\ stats = ZeroStats

LoopIdle ==
    /\ idx = 0
    /\ fixed_lines = <<>>
    /\ seen_images = {}
    /\ last_was_image = FALSE
    /\ last_image_file = <<>>

ZeroImageStats ==
    [images_found |-> 0, images_processed |-> 0, images_moved |-> 0,
     updated_content |-> <<>>]

FlattenIdle ==
    /\ image_files = <<>>
    /\ used_names = {}
    /\ moved_count = 0
    /\ next_image = 0
    /\ moves = <<>>

\* batch_convert's return value when no .epub file is found
NoFilesStats ==
    [files_processed |-> 0, files_succeeded |-> 0, files_failed |-> 0,
     results |-> <<>>]

\* an input_dir that does not exist
NoInputDir == [kind |-> "missing", files |-> {}]

\* config = {}: no "pandoc" and no "processing" key.  The model keeps of a
\* config whether config["pandoc"]["extra_args"] is there, its list, and
\* config["processing"]["extract_images"] (True when absent).
EmptyConfig ==
    [has_extra_args |-> FALSE, extra_args |-> <<>>, extract_images |-> TRUE]

BatchIdle ==
    /\ batch_args = [input_dir |-> NoInputDir, recursive |-> FALSE,
                     config |-> EmptyConfig]
    /\ config = EmptyConfig
    /\ pandoc_calls = <<>>
    /\ epub_files = <<>>
    /\ conversion_tasks = <<>>
    /\ results = <<>>
    /\ failed_count = 0
    /\ batch_stats = NoFilesStats

OtherIdle ==
    /\ disk = [exists |-> FALSE, files |-> {}, dirs |-> {}]
    /\ FlattenIdle
    /\ image_stats = ZeroImageStats
    /\ metadata = <<>>
    /\ custom_fields = <<>>
    /\ BatchIdle

InitDiv ==
    /\ content \in DivDocs
    /\ parts = <<>>
    /\ outs = <<>>
    /\ pc = "remove_div_blocks_from_content"
    /\ CleanIdle
    /\ LoopIdle
    /\ OtherIdle

Last == IF outs = <<>> THEN content ELSE outs[Len(outs)].text

ApplyDiv ==
    /\ pc = "remove_div_blocks_from_content"
    /\ Len(outs) < MaxApply
    /\ outs' = Append(outs, remove_div_blocks_from_content(Last))
    /\ UNCHANGED <<content, parts, pc, cleanVars, loopVars, otherVars>>

NextDiv == ApplyDiv

SpecDiv == InitDiv /\ [][NextDiv]_vars

(***************************************************************************)
(* Block markers, line by line: what a reader of the text calls an opening *)
(* and a closing block-marker line.                                        *)
(***************************************************************************)
Lines(s) == Split(s, NL)

AllWs(l, from) == \A k \in from..Len(l) : l[k] \in WS

IsOpenMarkerLine(l) ==
    /\ LitAt(l, 1, <<":", ":", ":", " ", "{">>)
    /\ \E j \in 6..Len(l) :
          /\ l[j] = "}"
          /\ \A k \in 6..(j - 1) : l[k] # "}"
          /\ AllWs(l, j + 1)

IsCloseMarkerLine(l) ==
    /\ LitAt(l, 1, <<":", ":", ":">>)
    /\ AllWs(l, 4)

HasMarkerLine(s) ==
    \E k \in 1..Len(Lines(s)) :
        IsOpenMarkerLine(Lines(s)[k]) \/ IsCloseMarkerLine(Lines(s)[k])

\* C2: the text remove_div_blocks_from_content returns has no line that is
\* an opening block marker (':::', a space and a brace-closed attribute set)
\* and no line that is a closing block marker (a bare ':::').
C2_NoMarkerLineLeft ==
    pc = "remove_div_blocks_from_content" =>
        \A n \in 1..Len(outs) : ~HasMarkerLine(outs[n].text)

\* C2 witness: an input made of an opening marker line and a closing marker
\* line with trailing whitespace has been through the pass, which counted
\* and removed both.
C2_Witness ==
    /\ pc = "remove_div_blocks_from_content"
    /\ Len(outs) >= 1
    /\ Len(Lines(content)) = 2
    /\ IsOpenMarkerLine(Lines(content)[1])
    /\ Lines(content)[2] = <<":", ":", ":", " ">>
    /\ outs[1].count = 2
    /\ outs[1].text = <<NL>>

(***************************************************************************)
(* remove_span_artifacts                                                   *)
(***************************************************************************)
\* r'\[\]\{[^}]*\}'
empty_span_pattern(s, i) ==
    IF LitAt(s, i, <<"[", "]", "{">>)
    THEN LET j == SkipNotIn(s, i + 3, {"}"})
         IN  IF j <= Len(s) THEN j + 1 ELSE 0
    ELSE 0

\* r'\[\s*\]\{[^}]*\}'
whitespace_span_pattern(s, i) ==
    IF LitAt(s, i, <<"[">>)
    THEN LET k == SkipIn(s, i + 1, WS)
         IN  IF LitAt(s, k, <<"]", "{">>)
             THEN LET j == SkipNotIn(s, k + 2, {"}"})
                  IN  IF j <= Len(s) THEN j + 1 ELSE 0
             ELSE 0
    ELSE 0

remove_span_artifacts(s) ==
    LET c1 == ReCount(empty_span_pattern, s, 1)
        s1 == ReSub(empty_span_pattern, Empty, s, 1)
        c2 == ReCount(whitespace_span_pattern, s1, 1)
        s2 == ReSub(whitespace_span_pattern, Empty, s1, 1)
    IN  [text |-> s2, count |-> c1 + c2]

SpanTokens ==
    { <<"[">>, <<"]">>, <<"]", "{", "a", "}">>, <<" ">>, <<"a">>, <<"{">> }

SpanDocs == Texts(SpanTokens, MaxSpanTokens)

InitSpan ==
    /\ content \in SpanDocs
    /\ parts = <<>>
    /\ outs = <<>>
    /\ pc = "remove_span_artifacts"
    /\ CleanIdle
    /\ LoopIdle
    /\ OtherIdle

ApplySpan ==
    /\ pc = "remove_span_artifacts"
    /\ Len(outs) < MaxApply
    /\ outs' = Append(outs, remove_span_artifacts(Last))
    /\ UNCHANGED <<content, parts, pc, cleanVars, loopVars, otherVars>>

NextSpan == ApplySpan

SpecSpan == InitSpan /\ [][NextSpan]_vars

\* a bracket pair that is empty or holds only whitespace, immediately
\* followed by a brace-delimited attribute set
HasEmptySpan(s) ==
    \E i \in 1..Len(s) : \E j \in (i + 1)..Len(s) : \E k \in (j + 2)..Len(s) :
        /\ s[i] = "["
        /\ \A m \in (i + 1)..(j - 1) : s[m] \in WS
        /\ s[j] = "]"
        /\ s[j + 1] = "{"
        /\ s[k] = "}"

\* C3: the text remove_span_artifacts returns contains no bracket pair that
\* is empty or holds only whitespace and is immediately followed by a
\* brace-delimited attribute set, nested constructs included.
C3_NoEmptySpanLeft ==
    (pc = "remove_span_artifacts" /\ Len(outs) >= 1) =>
        ~HasEmptySpan(outs[1].text)

(***************************************************************************)
(* fix_header_formatting                                                   *)
(***************************************************************************)
\* a position where $ (no MULTILINE) matches: the end of the string, or just
\* before a newline that ends the string
AtEnd(s, i) == i = Len(s) + 1 \/ (i = Len(s) /\ i >= 1 /\ s[i] = NL)

\* \s*$ (no MULTILINE) from i, greedy, giving back
RECURSIVE WsThenEnd(_, _, _)
WsThenEnd(s, i, e) ==
    IF AtEnd(s, e) THEN e
    ELSE IF e > i THEN WsThenEnd(s, i, e - 1)
    ELSE 0

\* the number of '#' characters the line starts with
HashRun(l) == SkipIn(l, 1, {"#"}) - 1

\* re.match(r'^#{1,6}\s', line)
IsHeaderLine(l) ==
    /\ HashRun(l) \in 1..6
    /\ HashRun(l) + 1 <= Len(l)
    /\ l[HashRun(l) + 1] \in WS

\* the attribute pattern without its leading \s*: r'\{[^}]*\}\s*$'
header_attr_no_leading_ws(s, i) ==
    IF LitAt(s, i, <<"{">>)
    THEN LET j == SkipNotIn(s, i + 1, {"}"})
         IN  IF j <= Len(s)
             THEN WsThenEnd(s, j + 1, SkipIn(s, j + 1, WS))
             ELSE 0
    ELSE 0

\* r'\s*\{[^}]*\}\s*$'
header_attr_pattern(s, i) ==
    LET k == SkipIn(s, i, WS)
    IN  IF LitAt(s, k, <<"{">>)
        THEN LET j == SkipNotIn(s, k + 1, {"}"})
             IN  IF j <= Len(s)
                 THEN WsThenEnd(s, j + 1, SkipIn(s, j + 1, WS))
                 ELSE 0
        ELSE 0

\* in r'^(#{1,6})\s+\*\*(.+?)\*\*\s*$': the lazy (.+?) from index g, trying
\* the closing \*\*\s*$ at p; the index of the closing markers, or 0
RECURSIVE BoldClose(_, _)
BoldClose(l, p) ==
    IF p > Len(l) THEN 0
    ELSE IF l[p - 1] = NL THEN 0
    ELSE IF LitAt(l, p, <<"*", "*">>)
            /\ WsThenEnd(l, p + 2, SkipIn(l, p + 2, WS)) # 0
         THEN p
    ELSE BoldClose(l, p + 1)

\* header_match = re.match(r'^(#{1,6})\s+\*\*(.+?)\*\*\s*$', line): the line
\* rewritten as f"{group(1)} {group(2)}", or the line when there is no match
UnwrapBold(l) ==
    LET h == HashRun(l)
        w == SkipIn(l, h + 1, WS)
    IN  IF h \in 1..6 /\ w > h + 1 /\ LitAt(l, w, <<"*", "*">>)
        THEN LET p == BoldClose(l, w + 3)
             IN  IF p # 0
                 THEN SubSeq(l, 1, h) \o <<" ">> \o SubSeq(l, w + 2, p - 1)
                 ELSE l
        ELSE l

\* the body of the for loop: the fixed line, and whether count was incremented
FixHeaderLine(l) ==
    IF IsHeaderLine(l)
    THEN LET hit == ReCount(header_attr_pattern, l, 1) > 0
             l1 == IF hit THEN ReSub(header_attr_pattern, Empty, l, 1) ELSE l
             l2 == ReSub(empty_span_pattern, Empty, l1, 1)
         IN  [line |-> UnwrapBold(l2), fixed |-> IF hit THEN 1 ELSE 0]
    ELSE [line |-> l, fixed |-> 0]

RECURSIVE SumFixed(_)
SumFixed(ls) ==
    IF ls = <<>> THEN 0 ELSE FixHeaderLine(Head(ls)).fixed + SumFixed(Tail(ls))

fix_header_formatting(s) ==
    LET lines == Split(s, NL)
        fixed == [k \in 1..Len(lines) |-> FixHeaderLine(lines[k]).line]
    IN  [text |-> Join(fixed, NL), count |-> SumFixed(lines)]

HeaderTokens ==
    { <<"#">>, <<"#", " ", "b">>, <<" ">>, <<"{", "a", "}">>, <<"{">>, <<"}">>,
      <<"*", "*", "b", "*", "*">>, <<"[", "]", "{", "a", "}">>, <<NL>> }

HeaderDocs == Texts(HeaderTokens, MaxHeaderTokens)

InitHeader ==
    /\ content \in HeaderDocs
    /\ parts = <<>>
    /\ outs = <<>>
    /\ pc = "fix_header_formatting"
    /\ CleanIdle
    /\ LoopIdle
    /\ OtherIdle

ApplyHeader ==
    /\ pc = "fix_header_formatting"
    /\ Len(outs) < MaxApply
    /\ outs' = Append(outs, fix_header_formatting(Last))
    /\ UNCHANGED <<content, parts, pc, cleanVars, loopVars, otherVars>>

NextHeader == ApplyHeader

SpecHeader == InitHeader /\ [][NextHeader]_vars

(***************************************************************************)
(* Header lines as a reader sees them, stated without the matchers.        *)
(***************************************************************************)
\* 1 to 6 '#' followed by whitespace
HeaderLevels(l) ==
    { h \in 1..6 : /\ Len(l) > h
                   /\ \A m \in 1..h : l[m] = "#"
                   /\ l[h + 1] \in WS }

\* the places where a brace-delimited block that ends the line may start
TrailingBlocks(l) ==
    { b \in 1..Len(l) :
        /\ l[b] = "{"
        /\ \E j \in (b + 1)..Len(l) :
              /\ l[j] = "}"
              /\ \A m \in (b + 1)..(j - 1) : l[m] # "}"
              /\ AllWs(l, j + 1) }

Min(S) == CHOOSE x \in S : \A y \in S : x <= y
Max(S) == CHOOSE x \in S : \A y \in S : x >= y

\* the line up to its trailing block, the whitespace before the block dropped
BeforeBlock(l) ==
    LET b == Min(TrailingBlocks(l))
        text == { a \in 1..(b - 1) : l[a] \notin WS }
    IN  IF text = {} THEN <<>> ELSE SubSeq(l, 1, Max(text))

Has(l, c) == \E m \in 1..Len(l) : l[m] = c

\* C4: from every header line fix_header_formatting strips the trailing
\* brace-delimited attribute block, keeping the hashes and (where the line
\* holds no span or bold marker to fix as well) exactly the header text;
\* count is the number of header lines a block was stripped from; every
\* line that is not a header is returned unchanged.
C4_HeaderAttrStripped ==
    (pc = "fix_header_formatting" /\ Len(outs) >= 1) =>
        LET in == Lines(content)
            out == Lines(outs[1].text)
            hdr == { k \in 1..Len(in) : HeaderLevels(in[k]) # {} }
            stripped == { k \in hdr : TrailingBlocks(in[k]) # {} }
        IN  /\ Len(out) = Len(in)
            /\ \A k \in (1..Len(in)) \ hdr : out[k] = in[k]
            /\ outs[1].count = Cardinality(stripped)
            /\ \A k \in stripped :
                  /\ HashRun(out[k]) = Max(HeaderLevels(in[k]))
                  /\ (~Has(in[k], "*") /\ ~Has(in[k], "["))
                        => out[k] = BeforeBlock(in[k])

\* C4 witness: a document with a line that is no header and a header line
\* '# b{a}' has been fixed: the block is gone, the header text is kept, the
\* other line is as it was, and count is 1.
C4_Witness ==
    /\ pc = "fix_header_formatting"
    /\ Len(outs) >= 1
    /\ Lines(content) = << <<"*", "*", "b", "*", "*">>,
                           <<"#", " ", "b", "{", "a", "}">> >>
    /\ Lines(outs[1].text) = << <<"*", "*", "b", "*", "*">>, <<"#", " ", "b">> >>
    /\ outs[1].count = 1

\* the header text is one bold pair: '**', a text without '**', '**'
WhollyBold(l) ==
    LET h == Max(HeaderLevels(l))
        text == { a \in (h + 1)..Len(l) : l[a] \notin WS }
    IN  /\ text # {}
        /\ Max(text) - Min(text) >= 4
        /\ LitAt(l, Min(text), <<"*", "*">>)
        /\ LitAt(l, Max(text) - 1, <<"*", "*">>)
        /\ \A m \in (Min(text) + 2)..(Max(text) - 3) : ~LitAt(l, m, <<"*", "*">>)

\* C5: a header whose text is not wholly wrapped in one bold pair keeps all
\* its bold markers (stated for headers with no attribute block or span, so
\* that nothing else is to be fixed in them: the line is returned as it was).
C5_PartialBoldKept ==
    (pc = "fix_header_formatting" /\ Len(outs) >= 1) =>
        LET in == Lines(content)
            out == Lines(outs[1].text)
        IN  \A k \in 1..Len(in) :
                (/\ HeaderLevels(in[k]) # {}
                 /\ ~Has(in[k], "{") /\ ~Has(in[k], "[")
                 /\ ~WhollyBold(in[k]))
                    => out[k] = in[k]

\* C7: applying fix_header_formatting to its own output returns that text
\* unchanged and a count of 0.
C7_HeaderIdempotent ==
    (pc = "fix_header_formatting" /\ Len(outs) >= 2) =>
        outs[2] = [text |-> outs[1].text, count |-> 0]

(***************************************************************************)
(* fix_link_artifacts                                                      *)
(***************************************************************************)
Lower == {"a", "b", "c", "d", "e", "f", "g", "h", "i", "j", "k", "l", "m",
          "n", "o", "p", "q", "r", "s", "t", "u", "v", "w", "x", "y", "z"}
Upper == {"A", "B", "C", "D", "E", "F", "G", "H", "I", "J", "K", "L", "M",
          "N", "O", "P", "Q", "R", "S", "T", "U", "V", "W", "X", "Y", "Z"}
Digit == {"0", "1", "2", "3", "4", "5", "6", "7", "8", "9"}
\* [a-zA-Z0-9_], and \w on the characters of the model
WordChar == Lower \cup Upper \cup Digit \cup {"_"}

L_html == <<".", "h", "t", "m", "l">>
L_oebps == <<"]", "(", "O", "E", "B", "P", "S", "/", "i", "m", "a", "g", "e", "s", "/">>
L_dotdot == <<"]", "(", ".", ".", "/", "i", "m", "a", "g", "e", "s", "/">>
L_flat == <<"]", "(", "i", "m", "a", "g", "e", "s", "/">>

\* r'\[([^\]]*)\]\(#[a-zA-Z0-9_]+\.html[^)]*\)'
internal_link_pattern(s, i) ==
    IF LitAt(s, i, <<"[">>)
    THEN LET j == SkipNotIn(s, i + 1, {"]"})
         IN  IF LitAt(s, j, <<"]", "(", "#">>)
             THEN LET k == SkipIn(s, j + 3, WordChar)
                  IN  IF k > j + 3 /\ LitAt(s, k, L_html)
                      THEN LET e == SkipNotIn(s, k + 5, {")"})
                           IN  IF e <= Len(s) THEN e + 1 ELSE 0
                      ELSE 0
             ELSE 0
    ELSE 0

\* r'\1' for internal_link_pattern
LinkText(s, i, e) == SubSeq(s, i + 1, SkipNotIn(s, i + 1, {"]"}) - 1)

\* r'\[\]\(#[^)]*\)'
empty_link_pattern(s, i) ==
    IF LitAt(s, i, <<"[", "]", "(", "#">>)
    THEN LET e == SkipNotIn(s, i + 4, {")"})
         IN  IF e <= Len(s) THEN e + 1 ELSE 0
    ELSE 0

\* r'!\[([^\]]*)\]\(<prefix>([^)]+)\)' where lit is '](<prefix>'
ImagePrefixPattern(s, i, lit) ==
    IF LitAt(s, i, <<"!", "[">>)
    THEN LET j == SkipNotIn(s, i + 2, {"]"})
         IN  IF LitAt(s, j, lit)
             THEN LET e == SkipNotIn(s, j + Len(lit), {")"})
                  IN  IF e > j + Len(lit) /\ e <= Len(s) THEN e + 1 ELSE 0
             ELSE 0
    ELSE 0

\* r'![\1](images/\2)' for a match of ImagePrefixPattern with lit
ImageFlat(s, i, e, lit) ==
    LET j == SkipNotIn(s, i + 2, {"]"})
    IN  SubSeq(s, i, j - 1) \o L_flat \o SubSeq(s, j + Len(lit), e - 1)

\* r'!\[([^\]]*)\]\(OEBPS/images/([^)]+)\)'
oebps_pattern(s, i) == ImagePrefixPattern(s, i, L_oebps)
oebps_repl(s, i, e) == ImageFlat(s, i, e, L_oebps)

\* r'!\[([^\]]*)\]\(\.\./images/([^)]+)\)'
dotdot_pattern(s, i) == ImagePrefixPattern(s, i, L_dotdot)
dotdot_repl(s, i, e) == ImageFlat(s, i, e, L_dotdot)

\* fix_link_artifacts with the '../images/' rewrites counted too
fix_link_artifacts_counting_all(s) ==
    LET c1 == ReCount(internal_link_pattern, s, 1)
        s1 == ReSub(internal_link_pattern, LinkText, s, 1)
        c2 == ReCount(empty_link_pattern, s1, 1)
        s2 == ReSub(empty_link_pattern, Empty, s1, 1)
        c3 == ReCount(oebps_pattern, s2, 1)
        s3 == ReSub(oebps_pattern, oebps_repl, s2, 1)
        c4 == ReCount(dotdot_pattern, s3, 1)
        s4 == ReSub(dotdot_pattern, dotdot_repl, s3, 1)
    IN  [text |-> s4, count |-> c1 + c2 + c3 + c4]

fix_link_artifacts(s) ==
    LET c1 == ReCount(internal_link_pattern, s, 1)
        s1 == ReSub(internal_link_pattern, LinkText, s, 1)
        c2 == ReCount(empty_link_pattern, s1, 1)
        s2 == ReSub(empty_link_pattern, Empty, s1, 1)
        c3 == ReCount(oebps_pattern, s2, 1)
        s3 == ReSub(oebps_pattern, oebps_repl, s2, 1)
        s4 == ReSub(dotdot_pattern, dotdot_repl, s3, 1)
    IN  [text |-> s4, count |-> c1 + c2 + c3]

(***************************************************************************)
(* Documents written from link and image constructs and plain characters.  *)
(* A '[' stands only where it opens a construct or, escaped, in the text   *)
(* of a footnote reference.                                                *)
(* A construct is [in: its text, out: what the claim says becomes of it,   *)
(* n: whether the claim counts it].                                        *)
(***************************************************************************)
L_htmlTarget == <<"]", "(", "#", "h">> \o L_html
L_img == <<"p", ".", "p", "n", "g", ")">>

\* a link whose target is '#<identifier>.html' and an optional fragment
HtmlLink(text, frag) ==
    [in |-> <<"[">> \o text \o L_htmlTarget \o frag \o <<")">>,
     out |-> text, n |-> 1]
\* a link with empty text and a '#' anchor target
EmptyAnchorLink == [in |-> <<"[", "]", "(", "#", "x", ")">>, out |-> <<>>, n |-> 1]
\* a link that is neither
AnchorLink ==
    LET l == <<"[", "a", "]", "(", "#", "x", ")">> IN [in |-> l, out |-> l, n |-> 0]
OebpsImage(alt) ==
    [in |-> <<"!", "[">> \o alt \o L_oebps \o L_img,
     out |-> <<"!", "[">> \o alt \o L_flat \o L_img, n |-> 1]
DotDotImage(alt) ==
    [in |-> <<"!", "[">> \o alt \o L_dotdot \o L_img,
     out |-> <<"!", "[">> \o alt \o L_flat \o L_img, n |-> 0]
FlatImage ==
    LET l == <<"!", "[", "a">> \o L_flat \o L_img IN [in |-> l, out |-> l, n |-> 0]
Plain(c) == [in |-> <<c>>, out |-> <<c>>, n |-> 0]

\* the text of a footnote reference, its brackets escaped: \[1\]
FootnoteText == <<"\\", "[", "1", "\\", "]">>

LinkParts ==
    { HtmlLink(<<"a">>, <<>>), HtmlLink(<<>>, <<"_", "1">>),
      HtmlLink(FootnoteText, <<"_", "1">>),
      EmptyAnchorLink, AnchorLink,
      OebpsImage(<<"a">>), DotDotImage(<<>>), FlatImage }
    \cup { Plain(c) : c \in {"t", "]", "!", "(", ")", NL} }

RECURSIVE PartSeqs(_)
PartSeqs(n) ==
    IF n = 0 THEN {<<>>}
    ELSE LET shorter == PartSeqs(n - 1)
         IN  shorter \cup {Append(d, p) : d \in shorter, p \in LinkParts}

RECURSIVE ConcatIn(_)
ConcatIn(ps) == IF ps = <<>> THEN <<>> ELSE Head(ps).in \o ConcatIn(Tail(ps))
RECURSIVE ConcatOut(_)
ConcatOut(ps) == IF ps = <<>> THEN <<>> ELSE Head(ps).out \o ConcatOut(Tail(ps))
RECURSIVE Counted(_)
Counted(ps) == IF ps = <<>> THEN 0 ELSE Head(ps).n + Counted(Tail(ps))

InitLink ==
    /\ parts \in PartSeqs(MaxLinkParts)
    /\ content = ConcatIn(parts)
    /\ outs = <<>>
    /\ pc = "fix_link_artifacts"
    /\ CleanIdle
    /\ LoopIdle
    /\ OtherIdle

ApplyLink ==
    /\ pc = "fix_link_artifacts"
    /\ outs = <<>>
    /\ outs' = <<fix_link_artifacts(content)>>
    /\ UNCHANGED <<content, parts, pc, cleanVars, loopVars, otherVars>>

NextLink == ApplyLink

SpecLink == InitLink /\ [][NextLink]_vars

\* C6: in a document written from link constructs, image constructs and
\* plain characters, fix_link_artifacts replaces every '#<identifier>.html'
\* link by its link text, deletes every empty-text '#' anchor link, rewrites
\* 'OEBPS/images/<rest>' and '../images/<rest>' image paths to
\* 'images/<rest>' keeping the alt text, leaves the rest as it is, and
\* returns as count the number of html-anchor links, empty anchor links and
\* OEBPS images, the '../images/' rewrites not counted.
C6_LinksFixedAndCounted ==
    (pc = "fix_link_artifacts" /\ outs # <<>>) =>
        outs[1] = [text |-> ConcatOut(parts), count |-> Counted(parts)]

\* C6 witness: an html-anchor link, an OEBPS image and a '../images/' image
\* have been fixed: all three are rewritten and the count is 2.
C6_Witness ==
    /\ pc = "fix_link_artifacts"
    /\ outs # <<>>
    /\ parts = <<HtmlLink(<<"a">>, <<>>), OebpsImage(<<"a">>), DotDotImage(<<>>)>>
    /\ outs[1].count = 2
    /\ outs[1].text = <<"a">> \o OebpsImage(<<"a">>).out \o DotDotImage(<<>>).out

(***************************************************************************)
(* normalize_whitespace_content                                            *)
(***************************************************************************)
\* r'\n{4,}'
newlines4_pattern(s, i) ==
    LET e == SkipIn(s, i, {NL}) IN IF e - i >= 4 THEN e ELSE 0

ThreeNewlines(s, i, e) == <<NL, NL, NL>>

\* str.rstrip(): trailing characters of C removed
RECURSIVE RStrip(_, _)
RStrip(l, C) ==
    IF l # <<>> /\ l[Len(l)] \in C THEN RStrip(SubSeq(l, 1, Len(l) - 1), C) ELSE l

\* str.lstrip(): leading characters of C removed
LStrip(l, C) == SubSeq(l, SkipIn(l, 1, C), Len(l))

\* str.strip()
Strip(l) == LStrip(RStrip(l, WS), WS)

\* r'([^\n])\n(#{1,6}\s)'
before_header_pattern(s, i) ==
    IF i + 1 <= Len(s) /\ s[i] # NL /\ s[i + 1] = NL
    THEN LET h == SkipIn(s, i + 2, {"#"})
         IN  IF h - (i + 2) \in 1..6 /\ h <= Len(s) /\ s[h] \in WS
             THEN h + 1
             ELSE 0
    ELSE 0

\* r'\1\n\n\2'
BlankLineBefore(s, i, e) == <<s[i], NL, NL>> \o SubSeq(s, i + 2, e - 1)

normalize_whitespace_content(s) ==
    LET s1 == ReSub(newlines4_pattern, ThreeNewlines, s, 1)
        ls == Split(s1, NL)
        s2 == Join([k \in 1..Len(ls) |-> RStrip(ls[k], WS)], NL)
        s3 == ReSub(before_header_pattern, BlankLineBefore, s2, 1)
        s4 == LStrip(s3, {NL})
    IN  RStrip(s4, {NL}) \o <<NL>>

WsTokens == { <<NL>>, <<" ">>, <<"a">>, <<"#">>, <<"#", " ", "b">> }

WsDocs == Texts(WsTokens, MaxWsTokens)

InitWs ==
    /\ content \in WsDocs
    /\ parts = <<>>
    /\ outs = <<>>
    /\ pc = "normalize_whitespace_content"
    /\ CleanIdle
    /\ LoopIdle
    /\ OtherIdle

ApplyWs ==
    /\ pc = "normalize_whitespace_content"
    /\ Len(outs) < MaxApply
    /\ outs' = Append(outs, [text |-> normalize_whitespace_content(Last),
                             count |-> 0])
    /\ UNCHANGED <<content, parts, pc, cleanVars, loopVars, otherVars>>

NextWs == ApplyWs

SpecWs == InitWs /\ [][NextWs]_vars

\* C8: applying normalize_whitespace_content to its own output returns that
\* text unchanged.
C8_WhitespaceIdempotent ==
    (pc = "normalize_whitespace_content" /\ Len(outs) >= 2) =>
        outs[2].text = outs[1].text

(***************************************************************************)
(* final_cleanup                                                           *)
(***************************************************************************)
DQ == "\""

\* the index just past the longest run of copies of lit starting at i
RECURSIVE SkipLit(_, _, _)
SkipLit(s, i, lit) ==
    IF LitAt(s, i, lit) THEN SkipLit(s, i + Len(lit), lit) ELSE i

\* a literal pattern
Literal(s, i, lit) == IF LitAt(s, i, lit) THEN i + Len(lit) ELSE 0

\* r'^\\\*(\\\*)+\s*$', re.MULTILINE
escaped_asterisks_pattern(s, i) ==
    IF AtBOL(s, i) /\ LitAt(s, i, <<"\\", "*", "\\", "*">>)
    THEN LET j == SkipLit(s, i, <<"\\", "*">>)
         IN  WsThenEOL(s, j, SkipIn(s, j, WS))
    ELSE 0

\* r'\s*\*' from i, 0 carried through
NextAsterisk(s, i) ==
    IF i = 0 THEN 0
    ELSE LET j == SkipIn(s, i, WS)
         IN  IF j <= Len(s) /\ s[j] = "*" THEN j + 1 ELSE 0

\* r'^\*\s*\*\s*\*\s*\*\s*\*\s*$', re.MULTILINE
spaced_asterisks_pattern(s, i) ==
    IF AtBOL(s, i) /\ LitAt(s, i, <<"*">>)
    THEN LET j == NextAsterisk(s, NextAsterisk(s, NextAsterisk(s,
                      NextAsterisk(s, i + 1))))
         IN  IF j = 0 THEN 0 ELSE WsThenEOL(s, j, SkipIn(s, j, WS))
    ELSE 0

\* '\n---\n'
HorizontalRule(s, i, e) == <<NL, "-", "-", "-", NL>>

\* r'\.was-a-p'
was_a_p_pattern(s, i) == Literal(s, i, <<".", "w", "a", "s", "-", "a", "-", "p">>)
\* r'\.k4w-margin'
k4w_margin_pattern(s, i) == Literal(s, i, <<".", "k", "4", "w", "-", "m", "a", "r", "g", "i", "n">>)

\* r'<attr>="[^"]*"'
QuotedAttr(s, i, attr) ==
    IF LitAt(s, i, attr \o <<"=", DQ>>)
    THEN LET j == SkipNotIn(s, i + Len(attr) + 2, {DQ})
         IN  IF j <= Len(s) THEN j + 1 ELSE 0
    ELSE 0

\* r'style="[^"]*"'
style_attr_pattern(s, i) == QuotedAttr(s, i, <<"s", "t", "y", "l", "e">>)
\* r'align="[^"]*"'
align_attr_pattern(s, i) == QuotedAttr(s, i, <<"a", "l", "i", "g", "n">>)
\* r'vertical="[^"]*"'
vertical_attr_pattern(s, i) == QuotedAttr(s, i, <<"v", "e", "r", "t", "i", "c", "a", "l">>)

\* r'</?<name>[^>]*>'
HtmlTag(s, i, name) ==
    IF LitAt(s, i, <<"<">>)
    THEN LET a == IF LitAt(s, i + 1, <<"/">>) THEN i + 2 ELSE i + 1
         IN  IF LitAt(s, a, name)
             THEN LET j == SkipNotIn(s, a + Len(name), {">"})
                  IN  IF j <= Len(s) THEN j + 1 ELSE 0
             ELSE 0
    ELSE 0

\* r'</?center[^>]*>'
center_tag_pattern(s, i) == HtmlTag(s, i, <<"c", "e", "n", "t", "e", "r">>)
\* r'</?div[^>]*>'
div_tag_pattern(s, i) == HtmlTag(s, i, <<"d", "i", "v">>)
\* r'</?span[^>]*>'
span_tag_pattern(s, i) == HtmlTag(s, i, <<"s", "p", "a", "n">>)

\* r'\{[#.][\w\-_:]+\}'
attr_marker_pattern(s, i) ==
    IF LitAt(s, i, <<"{">>) /\ i + 1 <= Len(s) /\ s[i + 1] \in {"#", "."}
    THEN LET j == SkipIn(s, i + 2, WordChar \cup {"-", ":"})
         IN  IF j > i + 2 /\ LitAt(s, j, <<"}">>) THEN j + 1 ELSE 0
    ELSE 0

\* r'\{\.[a-zA-Z_\-]+\s*\}'
class_marker_pattern(s, i) ==
    IF LitAt(s, i, <<"{", ".">>)
    THEN LET j == SkipIn(s, i + 2, Lower \cup Upper \cup {"_", "-"})
             k == SkipIn(s, j, WS)
         IN  IF j > i + 2 /\ LitAt(s, k, <<"}">>) THEN k + 1 ELSE 0
    ELSE 0

\* r'!\[[^\]]*\]\([^)]+\)' from i: the index of the closing parenthesis, or 0
ImageClose(s, i) ==
    IF LitAt(s, i, <<"!", "[">>)
    THEN LET a == SkipNotIn(s, i + 2, {"]"})
             b == SkipNotIn(s, a + 2, {")"})
         IN  IF LitAt(s, a, <<"]", "(">>) /\ b > a + 2 /\ b <= Len(s) THEN b ELSE 0
    ELSE 0

\* r'(!\[[^\]]*\]\([^)]+\))\{[^}]*\}'
image_attr_pattern(s, i) ==
    LET b == ImageClose(s, i)
    IN  IF b > 0 /\ LitAt(s, b + 1, <<"{">>)
        THEN LET c == SkipNotIn(s, b + 2, {"}"})
             IN  IF c <= Len(s) THEN c + 1 ELSE 0
        ELSE 0

\* r'\1'
ImageAlone(s, i, e) == SubSeq(s, i, ImageClose(s, i))

\* r'\s*name="[^"]*"'
name_attr_pattern(s, i) == QuotedAttr(s, SkipIn(s, i, WS), <<"n", "a", "m", "e">>)
\* r'\s*id="[^"]*"'
id_attr_pattern(s, i) == QuotedAttr(s, SkipIn(s, i, WS), <<"i", "d">>)

\* r'\[\[([^\]]+)\]\{\.underline\}\]'
underline_pattern(s, i) ==
    IF LitAt(s, i, <<"[", "[">>)
    THEN LET a == SkipNotIn(s, i + 2, {"]"})
         IN  IF a > i + 2 THEN Literal(s, a, <<"]", "{", ".", "u", "n", "d", "e", "r", "l", "i", "n", "e", "}", "]">>) ELSE 0
    ELSE 0

\* r'[\1]'
UnderlineText(s, i, e) ==
    <<"[">> \o SubSeq(s, i + 2, SkipNotIn(s, i + 2, {"]"}) - 1) \o <<"]">>

\* img_match.group(2) of re.match(r'^!\[([^\]]*)\]\(([^)]+)\)\s*$',
\* line.strip()), <<>> when the line does not match
img_path(line) ==
    LET st == Strip(line)
        b == ImageClose(st, 1)
    IN  IF b > 0 /\ WsThenEnd(st, b + 1, SkipIn(st, b + 1, WS)) > 0
        THEN SubSeq(st, SkipNotIn(st, 3, {"]"}) + 2, b - 1)
        ELSE <<>>

\* the loop that skips an image line whose path was seen before
RECURSIVE SkipSeenImages(_, _, _)
SkipSeenImages(lines, k, seen) ==
    IF k > Len(lines) THEN <<>>
    ELSE LET p == img_path(lines[k])
         IN  IF p # <<>> /\ p \in seen
             THEN SkipSeenImages(lines, k + 1, seen)
             ELSE <<lines[k]>>
                  \o SkipSeenImages(lines, k + 1,
                                    IF p # <<>> THEN seen \cup {p} ELSE seen)

\* stripped and re.match(r'^[\s\-\*\_\#\{\}]+$', stripped)
IsArtifactLine(line) ==
    LET st == Strip(line)
    IN  /\ st # <<>>
        /\ \A k \in 1..Len(st) : st[k] \in WS \cup {"-", "*", "_", "#", "{", "}"}

\* the loop that skips the lines that are just artifacts
RECURSIVE SkipArtifactLines(_, _)
SkipArtifactLines(lines, k) ==
    IF k > Len(lines) THEN <<>>
    ELSE (IF IsArtifactLine(lines[k]) THEN <<>> ELSE <<lines[k]>>)
         \o SkipArtifactLines(lines, k + 1)

\* r'\n{3,}'
newlines3_pattern(s, i) ==
    LET e == SkipIn(s, i, {NL}) IN IF e - i >= 3 THEN e ELSE 0

TwoNewlines(s, i, e) == <<NL, NL>>

final_cleanup(s) ==
    LET s1 == ReSub(escaped_asterisks_pattern, HorizontalRule, s, 1)
        s2 == ReSub(spaced_asterisks_pattern, HorizontalRule, s1, 1)
        s3 == ReSub(was_a_p_pattern, Empty, s2, 1)
        s4 == ReSub(k4w_margin_pattern, Empty, s3, 1)
        s5 == ReSub(style_attr_pattern, Empty, s4, 1)
        s6 == ReSub(align_attr_pattern, Empty, s5, 1)
        s7 == ReSub(vertical_attr_pattern, Empty, s6, 1)
        s8 == ReSub(center_tag_pattern, Empty, s7, 1)
        s9 == ReSub(div_tag_pattern, Empty, s8, 1)
        s10 == ReSub(span_tag_pattern, Empty, s9, 1)
        s11 == ReSub(attr_marker_pattern, Empty, s10, 1)
        s12 == ReSub(class_marker_pattern, Empty, s11, 1)
        s13 == ReSub(image_attr_pattern, ImageAlone, s12, 1)
        s14 == ReSub(name_attr_pattern, Empty, s13, 1)
        s15 == ReSub(id_attr_pattern, Empty, s14, 1)
        s16 == ReSub(underline_pattern, UnderlineText, s15, 1)
        s17 == Join(SkipSeenImages(Split(s16, NL), 1, {}), NL)
        s18 == Join(SkipArtifactLines(Split(s17, NL), 1), NL)
    IN  ReSub(newlines3_pattern, TwoNewlines, s18, 1)

(***************************************************************************)
(* clean_markdown: the six steps, each on [text: cleaned, stats: stats].   *)
(***************************************************************************)
\* Step 1: Remove div blocks
Step1(o, r) ==
    IF o.remove_div_blocks
    THEN LET d == remove_div_blocks_from_content(r.text)
         IN  [text |-> d.text,
              stats |-> [r.stats EXCEPT !.divs_removed = d.count]]
    ELSE r

\* Step 2: Remove empty span references
Step2(o, r) ==
    IF o.remove_spans
    THEN LET d == remove_span_artifacts(r.text)
         IN  [text |-> d.text,
              stats |-> [r.stats EXCEPT !.spans_removed = d.count]]
    ELSE r

\* Step 3: Fix headers
Step3(o, r) ==
    IF o.fix_headers
    THEN LET d == fix_header_formatting(r.text)
         IN  [text |-> d.text,
              stats |-> [r.stats EXCEPT !.headers_fixed = d.count]]
    ELSE r

\* Step 4: Clean up internal links and anchors
Step4(o, r) ==
    IF o.fix_links
    THEN LET d == fix_link_artifacts(r.text)
         IN  [text |-> d.text,
              stats |-> [r.stats EXCEPT !.links_fixed = d.count]]
    ELSE r

\* Step 5 without its 'if normalize_whitespace'
Step5Always(o, r) == [r EXCEPT !.text = normalize_whitespace_content(r.text)]

\* Step 5: Normalize whitespace
Step5(o, r) ==
    IF o.normalize_whitespace
    THEN [r EXCEPT !.text = normalize_whitespace_content(r.text)]
    ELSE r

\* Step 6: Final cleanup passes
Step6(o, r) == [r EXCEPT !.text = final_cleanup(r.text)]

clean_markdown(s, o) ==
    Step6(o, Step5(o, Step4(o, Step3(o, Step2(o, Step1(o,
        [text |-> s, stats |-> ZeroStats]))))))

MaxCleanLines == 2

\* lines of Pandoc's Markdown for an EPUB: block fences (the outer fence of
\* nested blocks is longer), a header with attributes, a header that ends in
\* an empty span, an empty span, a span with text, plain text, a blank line,
\* an image
CleanLines ==
    { <<"#", " ", "T", " ", "[", "]", "{", "#", "a", "}">>,
      <<":", ":", ":", " ", "{", "#", "w", "}">>, <<":", ":", ":">>, <<":", ":", ":", ":", " ", "{", ".", "o", "}">>, <<"#", " ", "T", " ", "{", "#", "t", "}">>, <<"[", "]", "{", "#", "a", "}", "S">>,
      <<"[", "S", "]", "{", "#", "i", " ", ".", "c", "}">>, <<"S">>, <<>>, <<"!", "[", "]", "(", "O", "E", "B", "P", "S", "/", "i", "m", "a", "g", "e", "s", "/", "i", ".", "p", "n", "g", ")">> }

RECURSIVE LineSeqs(_, _)
LineSeqs(lines, n) ==
    IF n = 0 THEN {<<>>}
    ELSE LET shorter == LineSeqs(lines, n - 1)
         IN  shorter \cup {Append(d, l) : d \in shorter, l \in lines}

CleanDocs == {Join(ls, NL) : ls \in LineSeqs(CleanLines, MaxCleanLines)}

InitClean ==
    /\ content \in CleanDocs
    /\ parts = <<>>
    /\ outs = <<>>
    /\ pc = "step1"
    /\ opts \in [{"remove_div_blocks", "remove_spans", "fix_headers",
                  "normalize_whitespace", "fix_links"} -> BOOLEAN]
    /\ cleaned = content
    /\ stats = ZeroStats
    /\ LoopIdle
    /\ OtherIdle

\* cleaned and stats as one record, as the steps take them
Cleaned == [text |-> cleaned, stats |-> stats]

RemoveDivBlocks ==
    /\ pc = "step1"
    /\ cleaned' = Step1(opts, Cleaned).text
    /\ stats' = Step1(opts, Cleaned).stats
    /\ pc' = "step2"
    /\ UNCHANGED <<content, parts, outs, opts, loopVars, otherVars>>

RemoveSpans ==
    /\ pc = "step2"
    /\ cleaned' = Step2(opts, Cleaned).text
    /\ stats' = Step2(opts, Cleaned).stats
    /\ pc' = "step3"
    /\ UNCHANGED <<content, parts, outs, opts, loopVars, otherVars>>

FixHeaders ==
    /\ pc = "step3"
    /\ cleaned' = Step3(opts, Cleaned).text
    /\ stats' = Step3(opts, Cleaned).stats
    /\ pc' = "step4"
    /\ UNCHANGED <<content, parts, outs, opts, loopVars, otherVars>>

FixLinks ==
    /\ pc = "step4"
    /\ cleaned' = Step4(opts, Cleaned).text
    /\ stats' = Step4(opts, Cleaned).stats
    /\ pc' = "step5"
    /\ UNCHANGED <<content, parts, outs, opts, loopVars, otherVars>>

NormalizeWhitespace ==
    /\ pc = "step5"
    /\ cleaned' = Step5(opts, Cleaned).text
    /\ stats' = Step5(opts, Cleaned).stats
    /\ pc' = "step6"
    /\ UNCHANGED <<content, parts, outs, opts, loopVars, otherVars>>

FinalCleanup ==
    /\ pc = "step6"
    /\ cleaned' = Step6(opts, Cleaned).text
    /\ stats' = Step6(opts, Cleaned).stats
    /\ pc' = "return"
    /\ UNCHANGED <<content, parts, outs, opts, loopVars, otherVars>>

NextClean ==
    \/ RemoveDivBlocks
    \/ RemoveSpans
    \/ FixHeaders
    \/ FixLinks
    \/ NormalizeWhitespace
    \/ FinalCleanup

SpecClean == InitClean /\ [][NextClean]_vars

Contains(s, lit) == \E i \in 1..Len(s) : LitAt(s, i, lit)

\* C1: when clean_markdown returns with all five toggles enabled, the text
\* contains no ':::', no '[]{' and no '{#', and divs_removed > 0 whenever
\* the input had at least one block-marker line.
C1_NoArtifactsLeft ==
    (pc = "return" /\ opts = AllOn) =>
        /\ ~Contains(cleaned, <<":", ":", ":">>)
        /\ ~Contains(cleaned, <<"[", "]", "{">>)
        /\ ~Contains(cleaned, <<"{", "#">>)
        /\ HasMarkerLine(content) => stats.divs_removed > 0

\* Where no link text holds a bracket, the four rewrites and the count are
\* as C6 states them.
LinksFixedWhereTextHasNoBracket ==
    (/\ pc = "fix_link_artifacts"
     /\ outs # <<>>
     /\ \A k \in 1..Len(parts) : parts[k] # HtmlLink(FootnoteText, <<"_", "1">>))
        => outs[1] = [text |-> ConcatOut(parts), count |-> Counted(parts)]

(***************************************************************************)
(* fix_all_image_paths                                                     *)
(***************************************************************************)
image_extensions ==
    { <<".", "j", "p", "g">>, <<".", "j", "p", "e", "g">>, <<".", "p", "n", "g">>, <<".", "g", "i", "f">>, <<".", "w", "e", "b", "p">>, <<".", "s", "v", "g">>, <<".", "b", "m", "p">> }

\* len(fixed_lines) < 10
DedupWindow == 10

UpperSeq ==
    <<"A", "B", "C", "D", "E", "F", "G", "H", "I", "J", "K", "L", "M",
      "N", "O", "P", "Q", "R", "S", "T", "U", "V", "W", "X", "Y", "Z">>
LowerSeq ==
    <<"a", "b", "c", "d", "e", "f", "g", "h", "i", "j", "k", "l", "m",
      "n", "o", "p", "q", "r", "s", "t", "u", "v", "w", "x", "y", "z">>

\* str.lower()
ToLower(s) ==
    [k \in 1..Len(s) |->
        IF s[k] \in Upper
        THEN LowerSeq[CHOOSE n \in 1..26 : UpperSeq[n] = s[k]]
        ELSE s[k]]

\* str.find(c) counted from 1: the index of the first c, 0 when there is none
Find(s, c) ==
    LET j == SkipNotIn(s, 1, {c}) IN IF j <= Len(s) THEN j ELSE 0

\* the end of the path at the first ')' of rest, whatever the depth
PathEndAtFirstParen(rest, i, paren_depth) == Find(rest, ")")

\* the loop over rest: the index of the ')' that brings paren_depth to 0,
\* counted from 1; 0 when the loop ends without one
RECURSIVE PathEnd(_, _, _)
PathEnd(rest, i, paren_depth) ==
    IF i > Len(rest) THEN 0
    ELSE IF rest[i] = "(" THEN PathEnd(rest, i + 1, paren_depth + 1)
    ELSE IF rest[i] = ")"
         THEN IF paren_depth = 1 THEN i
              ELSE PathEnd(rest, i + 1, paren_depth - 1)
    ELSE PathEnd(rest, i + 1, paren_depth)

\* full_path.replace('\\', '/').split('/')[-1].strip()
LastSegment(full_path) ==
    LET p == [k \in 1..Len(full_path) |->
                 IF full_path[k] = "\\" THEN "/" ELSE full_path[k]]
        path_parts == Split(p, "/")
    IN  Strip(path_parts[Len(path_parts)])

\* filename.split(c)[0] if c in filename
CutAt(filename, c) ==
    IF Find(filename, c) > 0
    THEN SubSeq(filename, 1, Find(filename, c) - 1)
    ELSE filename

\* os.path.splitext(p)[1] for p without a separator: from the last dot on,
\* when a character other than a dot stands before it
SplitExt(p) ==
    LET dots == {k \in 1..Len(p) : p[k] = "."}
    IN  IF dots = {} THEN <<>>
        ELSE LET d == CHOOSE k \in dots : \A n \in dots : n <= k
             IN  IF \E k \in 1..(d - 1) : p[k] # "."
                 THEN SubSeq(p, d, Len(p))
                 ELSE <<>>

\* the tests of the loop body on one line, up to 'if ext in image_extensions
\* and filename': [image, alt_text, filename]
ImageLine(line) ==
    LET stripped == Strip(line)
        no == [image |-> FALSE, alt_text |-> <<>>, filename |-> <<>>]
        bracket_end == Find(stripped, "]")
    IN  IF ~LitAt(stripped, 1, <<"!", "[">>) THEN no
        ELSE IF ~(bracket_end > 1 /\ Len(stripped) > bracket_end) THEN no
        ELSE IF stripped[bracket_end + 1] # "(" THEN no
        ELSE LET rest == SubSeq(stripped, bracket_end + 2, Len(stripped))
                 path_end == PathEnd(rest, 1, 1)
             IN  IF ~(path_end > 1) THEN no
                 ELSE LET full_path == SubSeq(rest, 1, path_end - 1)
                          filename ==
                              CutAt(CutAt(LastSegment(full_path), "?"), "#")
                          ext == SplitExt(ToLower(filename))
                      IN  IF ext \in image_extensions /\ filename # <<>>
                          THEN [image |-> TRUE,
                                alt_text |-> SubSeq(stripped, 3, bracket_end - 1),
                                filename |-> filename]
                          ELSE no

\* the local variables of the loop as one record
Loop ==
    [fixed_lines |-> fixed_lines, seen_images |-> seen_images,
     last_was_image |-> last_was_image, last_image_file |-> last_image_file]

LoopStart ==
    [fixed_lines |-> <<>>, seen_images |-> {}, last_was_image |-> FALSE,
     last_image_file |-> <<>>]

\* the loop body without the reset of last_was_image and last_image_file on
\* a line that is not an image line
LoopBodyWithoutReset(st, line) ==
    LET im == ImageLine(line)
    IN  IF im.image
        THEN IF st.last_was_image /\ st.last_image_file = im.filename
             THEN st
             ELSE IF /\ im.filename \in st.seen_images
                     /\ Len(st.fixed_lines) < DedupWindow
             THEN st
             ELSE [fixed_lines |->
                       Append(st.fixed_lines,
                              <<"!", "[">> \o im.alt_text
                              \o <<"]", "(", ".", "/", "i", "m", "a", "g", "e", "s", "/">>
                              \o im.filename \o <<")">>),
                   seen_images |-> st.seen_images \cup {im.filename},
                   last_was_image |-> TRUE,
                   last_image_file |-> im.filename]
        ELSE [st EXCEPT !.fixed_lines = Append(@, line)]

\* the loop body with the test on seen_images alone, without
\* 'len(fixed_lines) < 10'
LoopBodyDropSeen(st, line) ==
    LET im == ImageLine(line)
    IN  IF im.image
        THEN IF st.last_was_image /\ st.last_image_file = im.filename
             THEN st
             ELSE IF im.filename \in st.seen_images
             THEN st
             ELSE [fixed_lines |->
                       Append(st.fixed_lines,
                              <<"!", "[">> \o im.alt_text
                              \o <<"]", "(", ".", "/", "i", "m", "a", "g", "e", "s", "/">>
                              \o im.filename \o <<")">>),
                   seen_images |-> st.seen_images \cup {im.filename},
                   last_was_image |-> TRUE,
                   last_image_file |-> im.filename]
        ELSE [st EXCEPT
                 !.last_was_image = IF Strip(line) # <<>> THEN FALSE ELSE @,
                 !.last_image_file = IF Strip(line) # <<>> THEN <<>> ELSE @,
                 !.fixed_lines = Append(@, line)]

\* one pass of 'for line in lines' from the locals st
LoopBody(st, line) ==
    LET im == ImageLine(line)
    IN  IF im.image
        THEN IF st.last_was_image /\ st.last_image_file = im.filename
             THEN st
             ELSE IF /\ im.filename \in st.seen_images
                     /\ Len(st.fixed_lines) < DedupWindow
             THEN st
             ELSE [fixed_lines |->
                       Append(st.fixed_lines,
                              <<"!", "[">> \o im.alt_text \o <<"]", "(", ".", "/", "i", "m", "a", "g", "e", "s", "/">>
                              \o im.filename \o <<")">>),
                   seen_images |-> st.seen_images \cup {im.filename},
                   last_was_image |-> TRUE,
                   last_image_file |-> im.filename]
        ELSE [st EXCEPT
                 !.last_was_image = IF Strip(line) # <<>> THEN FALSE ELSE @,
                 !.last_image_file = IF Strip(line) # <<>> THEN <<>> ELSE @,
                 !.fixed_lines = Append(@, line)]

RECURSIVE RunLoop(_, _, _)
RunLoop(st, lines, k) ==
    IF k > Len(lines) THEN st ELSE RunLoop(LoopBody(st, lines[k]), lines, k + 1)

fix_all_image_paths(s) == Join(RunLoop(LoopStart, Split(s, NL), 1).fixed_lines, NL)

(***************************************************************************)
(* Documents of fix_all_image_paths: lines of text up to DedupWindow, then  *)
(* up to MaxImgLines lines, each [text: the line, claimed: the line with   *)
(* the path of its image construct as './images/<basename>', file: the     *)
(* basename, <<>> for a line without an image construct].                  *)
(***************************************************************************)
MaxImgLines == 3

TextLine == [text |-> <<"t">>, claimed |-> <<"t">>, file |-> <<>>]

ImgLines ==
    { [text |-> <<"!", "[", "a", "]", "(", "b", ".", "p", "n", "g", ")">>, claimed |-> <<"!", "[", "a", "]", "(", ".", "/", "i", "m", "a", "g", "e", "s", "/", "b", ".", "p", "n", "g", ")">>,
       file |-> <<"b", ".", "p", "n", "g">>],
      [text |-> <<"!", "[", "a", "]", "(", "x", " ", "(", "y", ")", "/", "b", ".", "p", "n", "g", "?", "q", "#", "f", ")">>, claimed |-> <<"!", "[", "a", "]", "(", ".", "/", "i", "m", "a", "g", "e", "s", "/", "b", ".", "p", "n", "g", ")">>,
       file |-> <<"b", ".", "p", "n", "g">>],
      [text |-> <<"!", "[", "]", "(", "/", "r", "/", "c", ".", "p", "n", "g", ")">>, claimed |-> <<"!", "[", "]", "(", ".", "/", "i", "m", "a", "g", "e", "s", "/", "c", ".", "p", "n", "g", ")">>,
       file |-> <<"c", ".", "p", "n", "g">>],
      [text |-> <<"t", " ", "!", "[", "a", "]", "(", "x", "/", "b", ".", "p", "n", "g", ")">>, claimed |-> <<"t", " ", "!", "[", "a", "]", "(", ".", "/", "i", "m", "a", "g", "e", "s", "/", "b", ".", "p", "n", "g", ")">>,
       file |-> <<"b", ".", "p", "n", "g">>],
      [text |-> <<>>, claimed |-> <<>>, file |-> <<>>],
      TextLine }

\* the numbers of leading lines of text: none, and those from which the
\* lines that follow can bring len(fixed_lines) to DedupWindow
Leading == {0} \cup ((DedupWindow - MaxImgLines)..DedupWindow)

ImgDocs ==
    { [k \in 1..n |-> TextLine] \o tail :
        n \in Leading, tail \in LineSeqs(ImgLines, MaxImgLines) }

TextOf(ps) == Join([k \in 1..Len(ps) |-> ps[k].text], NL)
ClaimedOf(ps) == Join([k \in 1..Len(ps) |-> ps[k].claimed], NL)

InitImg ==
    /\ parts \in ImgDocs
    /\ content = TextOf(parts)
    /\ outs = <<>>
    /\ pc = "for_line"
    /\ CleanIdle
    /\ LoopIdle
    /\ OtherIdle

\* lines = content.split('\n')
lines == Split(content, NL)

ForLine ==
    /\ pc = "for_line"
    /\ idx < Len(lines)
    /\ idx' = idx + 1
    /\ LET st == LoopBody(Loop, lines[idx + 1])
       IN  /\ fixed_lines' = st.fixed_lines
           /\ seen_images' = st.seen_images
           /\ last_was_image' = st.last_was_image
           /\ last_image_file' = st.last_image_file
    /\ UNCHANGED <<content, parts, outs, pc, cleanVars, otherVars>>

ReturnJoined ==
    /\ pc = "for_line"
    /\ idx = Len(lines)
    /\ outs' = <<[text |-> Join(fixed_lines, NL), count |-> 0]>>
    /\ pc' = "return"
    /\ UNCHANGED <<content, parts, cleanVars, loopVars, otherVars>>

NextImg == ForLine \/ ReturnJoined

SpecImg == InitImg /\ [][NextImg]_vars

\* no two lines of the document hold an image of the same file
NoFileTwice(ps) ==
    \A j, k \in 1..Len(ps) :
        (j # k /\ ps[j].file # <<>>) => ps[j].file # ps[k].file

\* C9: where no file is referred to twice, the text fix_all_image_paths
\* returns has the path of every image construct, nested, absolute, with
\* parentheses, a query or a fragment, at the start of its line or after
\* other text, as './images/<basename>', and the rest as it was.
C9_EveryImagePathRewritten ==
    (pc = "return" /\ NoFileTwice(parts)) => outs[1].text = ClaimedOf(parts)

(***************************************************************************)
(* Image lines of the document, in the order of the text.                  *)
(***************************************************************************)
\* the image line before line k, 0 when there is none
PrevImageLine(k) ==
    LET before == {j \in 1..(k - 1) : ImageLine(lines[j]).image}
    IN  IF before = {} THEN 0
        ELSE CHOOSE j \in before : \A n \in before : n <= j

\* line k is an image line of the same filename as the image line before it
IsRepeat(k) ==
    /\ k \in 1..Len(lines)
    /\ ImageLine(lines[k]).image
    /\ PrevImageLine(k) > 0
    /\ ImageLine(lines[PrevImageLine(k)]).filename = ImageLine(lines[k]).filename

\* only blank lines stand between line k and the image line before it
OnlyBlankBetween(k) ==
    \A n \in (PrevImageLine(k) + 1)..(k - 1) : Strip(lines[n]) = <<>>

\* an image line with its path as './images/<filename>'
Canonical(line) ==
    <<"!", "[">> \o ImageLine(line).alt_text
    \o <<"]", "(", ".", "/", "i", "m", "a", "g", "e", "s", "/">>
    \o ImageLine(line).filename \o <<")">>

EmittedImages == {j \in 1..Len(fixed_lines) : ImageLine(fixed_lines[j]).image}

\* the filename f is the file of an image line emitted so far
AlreadyEmitted(f) ==
    \E j \in EmittedImages : ImageLine(fixed_lines[j]).filename = f

\* the last image line emitted is of the file f and only blank lines have
\* been emitted after it
ConsecutiveRepeat(f) ==
    /\ EmittedImages # {}
    /\ LET j == CHOOSE j \in EmittedImages : \A n \in EmittedImages : n <= j
       IN  /\ ImageLine(fixed_lines[j]).filename = f
           /\ \A n \in (j + 1)..Len(fixed_lines) : Strip(fixed_lines[n]) = <<>>

\* C11: for an image line whose filename has been emitted already and that
\* is not a consecutive repeat, the loop emits nothing while fewer than
\* DedupWindow lines have been emitted, and emits the line, its path as
\* './images/<filename>', once DedupWindow lines or more have been emitted.
C11_SeenRepeatDroppedInWindow ==
    [][(/\ pc = "for_line"
        /\ idx' = idx + 1
        /\ ImageLine(lines[idx + 1]).image
        /\ AlreadyEmitted(ImageLine(lines[idx + 1]).filename)
        /\ ~ConsecutiveRepeat(ImageLine(lines[idx + 1]).filename))
           => IF Len(fixed_lines) < DedupWindow
              THEN fixed_lines' = fixed_lines
              ELSE fixed_lines' =
                       Append(fixed_lines, Canonical(lines[idx + 1]))]_vars

\* C11 witness: DedupWindow lines of text, an image line, a line of text and
\* an image line of the same file have been read, and both image lines are
\* in the returned text.
C11_Witness ==
    /\ pc = "return"
    /\ content = TextOf([k \in 1..DedupWindow |-> TextLine])
                 \o <<NL>> \o <<"!", "[", "a", "]", "(", "b", ".", "p", "n", "g", ")">> \o <<NL>> \o <<"t">> \o <<NL>>
                 \o <<"!", "[", "a", "]", "(", "x", " ", "(", "y", ")", "/", "b", ".", "p", "n", "g", "?", "q", "#", "f", ")">>
    /\ outs[1].text = TextOf([k \in 1..DedupWindow |-> TextLine])
                      \o <<NL>> \o <<"!", "[", "a", "]", "(", ".", "/", "i", "m", "a", "g", "e", "s", "/", "b", ".", "p", "n", "g", ")">> \o <<NL>> \o <<"t">>
                      \o <<NL>> \o <<"!", "[", "a", "]", "(", ".", "/", "i", "m", "a", "g", "e", "s", "/", "b", ".", "p", "n", "g", ")">>

(***************************************************************************)
(* The images directory.  A path is the sequence of the names from the     *)
(* directory down, a name a sequence of characters; disk.files are the     *)
(* paths of the files and disk.dirs those of the subdirectories.           *)
(***************************************************************************)
Name(path) == path[Len(path)]
Parent(path) == SubSeq(path, 1, Len(path) - 1)

\* Path.suffix: from the last dot of the name on, when the dot is neither
\* its first nor its last character
Suffix(name) ==
    LET dots == {k \in 1..Len(name) : name[k] = "."}
    IN  IF dots = {} THEN <<>>
        ELSE LET d == CHOOSE k \in dots : \A n \in dots : n <= k
             IN  IF 1 < d /\ d < Len(name) THEN SubSeq(name, d, Len(name))
                 ELSE <<>>

\* os.path.splitext(name)[0]
SplitBase(name) == SubSeq(name, 1, Len(name) - Len(SplitExt(name)))

\* str(n) for a natural number n
RECURSIVE Str(_)
Str(n) ==
    LET digits == <<"0", "1", "2", "3", "4", "5", "6", "7", "8", "9">>
    IN  IF n < 10 THEN <<digits[n + 1]>>
        ELSE Str(n \div 10) \o <<digits[(n % 10) + 1]>>

\* find_all_images: the files an rglob of the directory yields whose suffix,
\* in lower case, is an image extension
ImagesOn(d) == {f \in d.files : ToLower(Suffix(Name(f))) \in image_extensions}

\* every order of the elements of the set S
RECURSIVE Orders(_)
Orders(S) ==
    IF S = {} THEN {<<>>}
    ELSE UNION {{<<x>> \o o : o \in Orders(S \ {x})} : x \in S}

\* the while loop with new_name compared as it is spelled, without lower()
RECURSIVE FreeNameAsSpelled(_, _, _, _)
FreeNameAsSpelled(new_name, name, counter, used) ==
    IF new_name \in used
    THEN FreeNameAsSpelled(SplitBase(name) \o <<"_">> \o Str(counter)
                           \o SplitExt(name), name, counter + 1, used)
    ELSE new_name

\* the while loop of flatten_images_to_root: the first of name,
\* <base>_<counter><ext>, <base>_<counter + 1><ext>, ... that, in lower
\* case, is not in used
RECURSIVE FreeName(_, _, _, _)
FreeName(new_name, name, counter, used) ==
    IF ToLower(new_name) \in used
    THEN FreeName(SplitBase(name) \o <<"_">> \o Str(counter) \o SplitExt(name),
                  name, counter + 1, used)
    ELSE new_name

\* the subdirectories of d at the given depth that hold nothing
EmptyDirsAt(d, depth) ==
    {x \in d.dirs :
        /\ Len(x) = depth
        /\ \A f \in d.files : Parent(f) # x
        /\ \A y \in d.dirs : Parent(y) # x}

\* cleanup_empty_dirs: rmdir on every subdirectory, the deepest first; rmdir
\* removes a directory that holds nothing and raises OSError otherwise
RECURSIVE RemoveEmptyFrom(_, _)
RemoveEmptyFrom(d, depth) ==
    IF depth = 0 THEN d
    ELSE RemoveEmptyFrom([d EXCEPT !.dirs = @ \ EmptyDirsAt(d, depth)], depth - 1)

cleanup_empty_dirs(d) ==
    LET depths == {Len(x) : x \in d.dirs}
    IN  IF depths = {} THEN d
        ELSE RemoveEmptyFrom(d, CHOOSE m \in depths : \A n \in depths : n <= m)

(***************************************************************************)
(* extract_and_process_images, with flatten_images_to_root and             *)
(* cleanup_empty_dirs; optimize has its default, False.                    *)
(***************************************************************************)
MaxFiles == 3

\* the files a directory of extracted media may hold: images of one name in
\* two spellings and of the name a collision gives, and a file that is not
\* an image, at the root and in the subdirectories O and O/i
FileNames == { <<"a", ".", "p", "n", "g">>, <<"A", ".", "P", "N", "G">>, <<"a", "_", "1", ".", "p", "n", "g">>, <<"n", ".", "t", "x", "t">> }

FilePaths ==
    {<<n>> : n \in FileNames}
    \cup {<<<<"O">>, n>> : n \in {<<"a", ".", "p", "n", "g">>, <<"n", ".", "t", "x", "t">>}}
    \cup {<<<<"O">>, <<"i">>, n>> : n \in {<<"a", ".", "p", "n", "g">>, <<"A", ".", "P", "N", "G">>, <<"a", "_", "1", ".", "p", "n", "g">>}}

\* the directories above a path
Ancestors(path) == {SubSeq(path, 1, k) : k \in 1..(Len(path) - 1)}

\* subdirectories that hold no file: none, one, one in another
EmptyDirs == { {}, {<<<<"e">>>>}, {<<<<"e">>>>, <<<<"e">>, <<"e">>>>} }

Disks ==
    {[exists |-> FALSE, files |-> {}, dirs |-> {}]}
    \cup {[exists |-> TRUE, files |-> fs,
           dirs |-> UNION {Ancestors(f) : f \in fs} \cup es] :
             fs \in {x \in SUBSET FilePaths : Cardinality(x) <= MaxFiles},
             es \in EmptyDirs}

ExtractDocs == { <<"!", "[", "c", "]", "(", "O", "/", "i", "/", "a", ".", "p", "n", "g", ")">>, <<"t">> }

InitExtract ==
    /\ content \in ExtractDocs
    /\ parts = <<>>
    /\ outs = <<>>
    /\ pc = "extract_and_process_images"
    /\ CleanIdle
    /\ LoopIdle
    /\ disk \in Disks
    /\ FlattenIdle
    /\ image_stats = [ZeroImageStats EXCEPT !.updated_content = content]
    /\ metadata = <<>>
    /\ custom_fields = <<>>
    /\ BatchIdle

\* if not images_dir.exists(): return stats
ReturnNoDirectory ==
    /\ pc = "extract_and_process_images"
    /\ ~disk.exists
    /\ pc' = "return"
    /\ UNCHANGED <<content, parts, outs, cleanVars, loopVars, imageVars,
                   frontVars, batchVars>>

\* image_files = find_all_images(images_dir), in the order rglob yields them
FindAllImages ==
    /\ pc = "extract_and_process_images"
    /\ disk.exists
    /\ \E order \in Orders(ImagesOn(disk)) :
          /\ image_files' = order
          /\ IF order = <<>>
             THEN /\ image_stats' =
                        [image_stats EXCEPT
                            !.updated_content = fix_all_image_paths(content)]
                  /\ pc' = "return"
             ELSE /\ image_stats' =
                        [image_stats EXCEPT !.images_found = Len(order)]
                  /\ pc' = "flatten_images_to_root"
    /\ UNCHANGED <<content, parts, outs, cleanVars, loopVars, disk, used_names,
                   moved_count, next_image, moves, frontVars, batchVars>>

\* flatten_images_to_root: the names of the files at the root, in lower case
CollectUsedNames ==
    /\ pc = "flatten_images_to_root"
    /\ used_names' = {ToLower(Name(f)) : f \in {x \in disk.files : Len(x) = 1}}
    /\ moved_count' = 0
    /\ pc' = "for_image_path"
    /\ UNCHANGED <<content, parts, outs, cleanVars, loopVars, disk, image_files,
                   next_image, moves, image_stats, frontVars, batchVars>>

\* if image_path.parent == images_dir: continue
SkipRootImage ==
    /\ pc = "for_image_path"
    /\ next_image < Len(image_files)
    /\ Len(image_files[next_image + 1]) = 1
    /\ next_image' = next_image + 1
    /\ UNCHANGED <<content, parts, outs, pc, cleanVars, loopVars, disk,
                   image_files, used_names, moved_count, moves, image_stats,
                   frontVars, batchVars>>

\* the rest of the loop body with moved_count += 1 outside the try
MoveImageCountingEvery ==
    /\ pc = "for_image_path"
    /\ next_image < Len(image_files)
    /\ Len(image_files[next_image + 1]) > 1
    /\ LET image_path == image_files[next_image + 1]
           new_name == FreeName(Name(image_path), Name(image_path), 1, used_names)
       IN  /\ used_names' = used_names \cup {ToLower(new_name)}
           /\ \E raised \in BOOLEAN, copied \in BOOLEAN :
                 /\ ~raised => copied
                 /\ disk' = [disk EXCEPT !.files =
                                (IF raised THEN @ ELSE @ \ {image_path})
                                \cup (IF copied THEN {<<new_name>>} ELSE {})]
                 /\ moved_count' = moved_count + 1
                 /\ moves' = Append(moves, [from |-> image_path,
                                            to |-> <<new_name>>,
                                            ok |-> ~raised])
    /\ next_image' = next_image + 1
    /\ UNCHANGED <<content, parts, outs, pc, cleanVars, loopVars, image_files,
                   image_stats, frontVars, batchVars>>

\* the rest of the loop body: the new name, and shutil.move, which moves the
\* file or raises, with or without the copy left at the root
MoveImage ==
    /\ pc = "for_image_path"
    /\ next_image < Len(image_files)
    /\ Len(image_files[next_image + 1]) > 1
    /\ LET image_path == image_files[next_image + 1]
           new_name == FreeName(Name(image_path), Name(image_path), 1, used_names)
       IN  /\ used_names' = used_names \cup {ToLower(new_name)}
           /\ \E raised \in BOOLEAN, copied \in BOOLEAN :
                 /\ ~raised => copied
                 /\ disk' = [disk EXCEPT !.files =
                                (IF raised THEN @ ELSE @ \ {image_path})
                                \cup (IF copied THEN {<<new_name>>} ELSE {})]
                 /\ moved_count' = IF raised THEN moved_count ELSE moved_count + 1
                 /\ moves' = Append(moves, [from |-> image_path,
                                            to |-> <<new_name>>,
                                            ok |-> ~raised])
    /\ next_image' = next_image + 1
    /\ UNCHANGED <<content, parts, outs, pc, cleanVars, loopVars, image_files,
                   image_stats, frontVars, batchVars>>

\* cleanup_empty_dirs(images_dir); return moved_count
CleanupEmptyDirs ==
    /\ pc = "for_image_path"
    /\ next_image = Len(image_files)
    /\ disk' = cleanup_empty_dirs(disk)
    /\ image_stats' = [image_stats EXCEPT !.images_moved = moved_count]
    /\ pc' = "fix_all_image_paths"
    /\ UNCHANGED <<content, parts, outs, cleanVars, loopVars, flattenVars,
                   frontVars, batchVars>>

\* content = fix_all_image_paths(content); return stats
FixPaths ==
    /\ pc = "fix_all_image_paths"
    /\ image_stats' =
           [image_stats EXCEPT !.updated_content = fix_all_image_paths(content)]
    /\ pc' = "return"
    /\ UNCHANGED <<content, parts, outs, cleanVars, loopVars, disk, flattenVars,
                   frontVars, batchVars>>

NextExtract ==
    \/ ReturnNoDirectory
    \/ FindAllImages
    \/ CollectUsedNames
    \/ SkipRootImage
    \/ MoveImage
    \/ CleanupEmptyDirs
    \/ FixPaths

SpecExtract == InitExtract /\ [][NextExtract]_vars

\* C12: when the images directory does not exist, extract_and_process_images
\* returns with no move attempted, images_found = 0, images_moved = 0, and
\* updated_content the text with its image paths as './images/<basename>'.
C12_MissingDirStillFixesPaths ==
    (pc = "return" /\ ~disk.exists) =>
        /\ moves = <<>>
        /\ image_stats.images_found = 0
        /\ image_stats.images_moved = 0
        /\ image_stats.updated_content = fix_all_image_paths(content)

(***************************************************************************)
(* Flattening, in terms of the directory alone.                            *)
(***************************************************************************)
\* flatten_images_to_root has returned
Flattened ==
    \/ pc = "fix_all_image_paths"
    \/ pc = "return" /\ image_files # <<>>

NoMoveFailed == \A k \in 1..Len(moves) : moves[k].ok

\* the names, in lower case, of the files at the root of d
RootNames(d) == {ToLower(Name(f)) : f \in {x \in d.files : Len(x) = 1}}

\* name with '_<n>' before its extension
Numbered(name, n) == SplitBase(name) \o <<"_">> \o Str(n) \o SplitExt(name)

\* to is the name the file name gets at the root of d: name itself if free,
\* else name numbered with the smallest n from 1 that is free
IsFreeNameFor(to, name, d) ==
    IF ToLower(name) \notin RootNames(d) THEN to = name
    ELSE \E n \in 1..(Cardinality(d.files) + 1) :
            /\ to = Numbered(name, n)
            /\ ToLower(to) \notin RootNames(d)
            /\ \A m \in 1..(n - 1) : ToLower(Numbered(name, m)) \in RootNames(d)

\* C13: when no move fails, after flatten_images_to_root every image file of
\* the directory is at its root and no subdirectory is empty; and each move
\* goes to a name no file at the root has, compared in lower case: the name
\* of the file, or that name with '_<n>' before the extension for the
\* smallest free n from 1.
C13_FlattenedWithoutOverwrite ==
    /\ []((Flattened /\ NoMoveFailed) =>
            /\ \A f \in ImagesOn(disk) : Len(f) = 1
            /\ \A x \in disk.dirs :
                  \/ \E f \in disk.files : Parent(f) = x
                  \/ \E y \in disk.dirs : Parent(y) = x)
    /\ [][(Len(moves') = Len(moves) + 1 /\ NoMoveFailed')
             => LET m == moves'[Len(moves')]
                IN  /\ m.to \notin disk.files
                    /\ IsFreeNameFor(Name(m.to), Name(m.from), disk)
                    /\ disk'.files = (disk.files \ {m.from}) \cup {m.to}]_vars

\* C13 witness: an image two directories down, with its name and the name
\* numbered 1 taken at the root, has been moved to the name numbered 2, and
\* both directories are gone.
C13_Witness ==
    /\ pc = "return"
    /\ moves = <<[from |-> <<<<"O">>, <<"i">>, <<"a", ".", "p", "n", "g">>>>, to |-> <<<<"a", "_", "2", ".", "p", "n", "g">>>>,
                 ok |-> TRUE]>>
    /\ disk = [exists |-> TRUE,
               files |-> {<<<<"A", ".", "P", "N", "G">>>>, <<<<"a", "_", "1", ".", "p", "n", "g">>>>, <<<<"a", "_", "2", ".", "p", "n", "g">>>>},
               dirs |-> {}]

\* the files of image_files below the root, in their order
RECURSIVE Nested(_)
Nested(paths) ==
    IF paths = <<>> THEN <<>>
    ELSE (IF Len(Head(paths)) > 1 THEN <<Head(paths)>> ELSE <<>>)
         \o Nested(Tail(paths))

\* C14: whether or not moves have failed, when flatten_images_to_root has
\* returned every image below the root has been attempted, once and in
\* order, no subdirectory is empty, and the count returned is the number of
\* moves that succeeded.
C14_FailedMoveSkipped ==
    Flattened =>
        /\ [k \in 1..Len(moves) |-> moves[k].from] = Nested(image_files)
        /\ \A x \in disk.dirs :
              \/ \E f \in disk.files : Parent(f) = x
              \/ \E y \in disk.dirs : Parent(y) = x
        /\ moved_count = Cardinality({k \in 1..Len(moves) : moves[k].ok})
        /\ image_stats.images_moved = moved_count

\* C14 witness: the first of two moves has failed and the second has been
\* made; the count is 1 and the directory the second image left is gone.
C14_Witness ==
    /\ pc = "return"
    /\ moves = <<[from |-> <<<<"O">>, <<"a", ".", "p", "n", "g">>>>, to |-> <<<<"a", ".", "p", "n", "g">>>>,
                 ok |-> FALSE],
                [from |-> <<<<"O">>, <<"i">>, <<"a", ".", "p", "n", "g">>>>, to |-> <<<<"a", "_", "1", ".", "p", "n", "g">>>>,
                 ok |-> TRUE]>>
    /\ disk = [exists |-> TRUE,
               files |-> {<<<<"O">>, <<"a", ".", "p", "n", "g">>>>, <<<<"a", "_", "1", ".", "p", "n", "g">>>>},
               dirs |-> {<<<<"O">>>>}]
    /\ image_stats.images_moved = 1

(***************************************************************************)
(* generate_frontmatter.  metadata is a record of the six fields, <<>> for *)
(* a field that is missing or empty; custom_fields is the dict             *)
(* config["custom_fields"] as the sequence of its items, [key, value].     *)
(***************************************************************************)
\* str.replace(c, r) for a character c
RECURSIVE Replace(_, _, _)
Replace(s, c, r) ==
    IF s = <<>> THEN <<>>
    ELSE (IF Head(s) = c THEN r ELSE <<Head(s)>>) \o Replace(Tail(s), c, r)

\* .replace('"', '\\"')
EscapeQuotes(s) == Replace(s, DQ, <<"\\", DQ>>)

\* f'{key}: "{value}"'
FieldLine(key, value) == key \o <<":", " ", DQ>> \o value \o <<DQ>>

\* the lines.append of one 'if metadata.get(...)', or none
IfPresent(value, line) == IF value # <<>> THEN <<line>> ELSE <<>>

RECURSIVE CustomLines(_)
CustomLines(items) ==
    IF items = <<>> THEN <<>>
    ELSE <<FieldLine(Head(items).key, Head(items).value)>>
         \o CustomLines(Tail(items))

generate_frontmatter(md, items) ==
    Join(<<<<"-", "-", "-">>>>
         \o IfPresent(md.title, FieldLine(<<"t", "i", "t", "l", "e">>, EscapeQuotes(md.title)))
         \o IfPresent(md.author, FieldLine(<<"a", "u", "t", "h", "o", "r">>, EscapeQuotes(md.author)))
         \o IfPresent(md.publisher,
                      FieldLine(<<"p", "u", "b", "l", "i", "s", "h", "e", "r">>, EscapeQuotes(md.publisher)))
         \o IfPresent(md.date, FieldLine(<<"d", "a", "t", "e">>, md.date))
         \o IfPresent(md.language, FieldLine(<<"l", "a", "n", "g", "u", "a", "g", "e">>, md.language))
         \o IfPresent(md.description,
                      FieldLine(<<"d", "e", "s", "c", "r", "i", "p", "t", "i", "o", "n">>,
                                Replace(EscapeQuotes(md.description), NL, <<" ">>)))
         \o CustomLines(items)
         \o <<<<"-", "-", "-">>>>,
         NL)

MaxCustomFields == 2

\* values of a field: none, plain, with a double quote, of two lines
FieldValues == { <<>>, <<"a">>, <<"a", DQ, "b">>, <<"a", NL, "b">> }
\* for the fields handled like title or like date: none, with a double quote
QuotedValues == { <<>>, <<"a", DQ, "b">> }

Metadatas ==
    [title : FieldValues, author : QuotedValues, publisher : QuotedValues,
     date : FieldValues, language : QuotedValues, description : FieldValues]

CustomKeys == { <<"s", "e", "r", "i", "e", "s">>, <<"t", "a", "g", "s">>, <<"x">> }

\* the items of a dict: no key twice
CustomItems ==
    {s \in LineSeqs([key : CustomKeys, value : {<<"a">>, <<"a", DQ, "b">>}],
                    MaxCustomFields) :
        \A j, k \in 1..Len(s) : j # k => s[j].key # s[k].key}

InitFront ==
    /\ content = <<>>
    /\ parts = <<>>
    /\ outs = <<>>
    /\ pc = "generate_frontmatter"
    /\ CleanIdle
    /\ LoopIdle
    /\ disk = [exists |-> FALSE, files |-> {}, dirs |-> {}]
    /\ FlattenIdle
    /\ image_stats = ZeroImageStats
    /\ metadata \in Metadatas
    /\ custom_fields \in CustomItems
    /\ BatchIdle

GenerateFrontmatter ==
    /\ pc = "generate_frontmatter"
    /\ outs' = <<[text |-> generate_frontmatter(metadata, custom_fields),
                  count |-> 0]>>
    /\ pc' = "return"
    /\ UNCHANGED <<content, parts, cleanVars, loopVars, otherVars>>

NextFront == GenerateFrontmatter

SpecFront == InitFront /\ [][NextFront]_vars

\* the six fields in the order of the output
FieldOrder ==
    <<<<"t", "i", "t", "l", "e">>, <<"a", "u", "t", "h", "o", "r">>, <<"p", "u", "b", "l", "i", "s", "h", "e", "r">>, <<"d", "a", "t", "e">>, <<"l", "a", "n", "g", "u", "a", "g", "e">>, <<"d", "e", "s", "c", "r", "i", "p", "t", "i", "o", "n">>>>

ValueOf(md, k) ==
    <<md.title, md.author, md.publisher, md.date, md.language,
      md.description>>[k]

\* every double quote of v has a backslash before it
QuotesEscaped(v) ==
    \A k \in 1..Len(v) : v[k] = DQ => (k > 1 /\ v[k - 1] = "\\")

\* the text between the opening and the closing quote of a 'key: "value"'
\* line
ValueIn(line, key) == SubSeq(line, Len(key) + 4, Len(line) - 1)

\* the keys of the lines the output is to have, in order
RECURSIVE PresentKeys(_, _)
PresentKeys(md, k) ==
    IF k > Len(FieldOrder) THEN <<>>
    ELSE (IF ValueOf(md, k) # <<>> THEN <<FieldOrder[k]>> ELSE <<>>)
         \o PresentKeys(md, k + 1)

ExpectedKeys ==
    PresentKeys(metadata, 1)
    \o [k \in 1..Len(custom_fields) |-> custom_fields[k].key]

\* C16: the output is a '---' line, one line 'key: "..."' for each present
\* field in the fixed order, one for each custom field in the given order,
\* and a '---' line, and nothing else.
C16_OneLinePerPresentField ==
    pc = "return" =>
        LET ls == Lines(outs[1].text)
        IN  /\ Len(ls) = Len(ExpectedKeys) + 2
            /\ ls[1] = <<"-", "-", "-">>
            /\ ls[Len(ls)] = <<"-", "-", "-">>
            /\ \A k \in 1..Len(ExpectedKeys) :
                  /\ LitAt(ls[k + 1], 1, ExpectedKeys[k] \o <<":", " ", DQ>>)
                  /\ ls[k + 1][Len(ls[k + 1])] = DQ

\* C15: where the output has one line for each field, the value between
\* the quotes of every line has a backslash before each of its double
\* quotes.
C15_EveryValueEscaped ==
    (pc = "return" /\ C16_OneLinePerPresentField) =>
        LET ls == Lines(outs[1].text)
        IN  \A k \in 1..Len(ExpectedKeys) :
               QuotesEscaped(ValueIn(ls[k + 1], ExpectedKeys[k]))

\* the toggles, and the count each of the counted passes reports
Toggles ==
    {"remove_div_blocks", "remove_spans", "fix_headers", "normalize_whitespace",
     "fix_links"}

CountOf ==
    [remove_div_blocks |-> "divs_removed", remove_spans |-> "spans_removed",
     fix_headers |-> "headers_fixed", fix_links |-> "links_fixed"]

\* C17: when clean_markdown returns, for each enabled pass the report of
\* the same call with that pass disabled has the same count for every other
\* pass.
C17_CountsIndependentOfOtherPasses ==
    pc = "return" =>
        \A p \in Toggles :
            opts[p] =>
                LET without == clean_markdown(content, [opts EXCEPT ![p] = FALSE])
                IN  \A q \in DOMAIN CountOf :
                       q # p => without.stats[CountOf[q]] = stats[CountOf[q]]

(***************************************************************************)
(* The passes of clean_markdown, each under its toggle.                    *)
(***************************************************************************)
DivPass(t) ==
    IF opts.remove_div_blocks THEN remove_div_blocks_from_content(t).text ELSE t
SpanPass(t) ==
    IF opts.remove_spans THEN remove_span_artifacts(t).text ELSE t
HeaderPass(t) ==
    IF opts.fix_headers THEN fix_header_formatting(t).text ELSE t
LinkPass(t) ==
    IF opts.fix_links THEN fix_link_artifacts(t).text ELSE t
WhitespacePass(t) ==
    IF opts.normalize_whitespace THEN normalize_whitespace_content(t) ELSE t

\* C18: clean_markdown applies the block-wrapper, span, header, link and
\* whitespace pass in this order, each only if enabled, and then the final
\* sweep whatever the toggles: what it returns is the final sweep of the
\* enabled passes composed in that order on the input; the count of a
\* disabled pass is 0; the report has the four keys divs_removed,
\* spans_removed, headers_fixed, links_fixed and no negative value.
C18_FixedOrderOfPasses ==
    pc = "return" =>
        /\ \E d \in {DivPass(content)} :
           \E s \in {SpanPass(d)} :
           \E h \in {HeaderPass(s)} :
           \E l \in {LinkPass(h)} :
           \E w \in {WhitespacePass(l)} :
              cleaned = final_cleanup(w)
        /\ DOMAIN stats =
              {"divs_removed", "spans_removed", "headers_fixed", "links_fixed"}
        /\ \A q \in DOMAIN CountOf :
              /\ stats[CountOf[q]] >= 0
              /\ ~opts[q] => stats[CountOf[q]] = 0

\* C18 witness: with the span pass disabled and the others enabled, the
\* header that ends in an empty span has lost the span's attributes to the
\* header pass and kept the brackets; one header fixed, no span removed.
C18_Witness ==
    /\ pc = "return"
    /\ opts = [AllOn EXCEPT !.remove_spans = FALSE]
    /\ content = <<"#", " ", "T", " ", "[", "]", "{", "#", "a", "}">>
    /\ cleaned = <<"#", " ", "T", " ", "[", "]">> \o <<NL>>
    /\ stats = [ZeroStats EXCEPT !.headers_fixed = 1]

(***************************************************************************)
(* batch_convert (converter.py).  A file of input_dir is its path relative *)
(* to input_dir: [dir, stem, suffix].  convert_epub_to_markdown either     *)
(* returns its result dict or raises an Exception; of the dict the model   *)
(* keeps input_file and output_file.                                       *)
(***************************************************************************)
MaxEpubFiles == 3

BatchPaths ==
    { [dir |-> <<>>, stem |-> "a", suffix |-> ".epub"],
      [dir |-> <<>>, stem |-> "b", suffix |-> ".epub"],
      [dir |-> <<"d">>, stem |-> "c", suffix |-> ".epub"],
      [dir |-> <<>>, stem |-> "n", suffix |-> ".txt"] }

InputDirs ==
    {NoInputDir, [kind |-> "file", files |-> {}]} \cup
    { [kind |-> "dir", files |-> fs] :
        fs \in {S \in SUBSET BatchPaths : Cardinality(S) <= MaxEpubFiles} }

\* str(e) of the exception a conversion raises
ErrorTexts == {"pandoc", "zip"}

\* input_path.glob("**/*.epub" if recursive else "*.epub")
Glob(dir, recursive) ==
    {f \in dir.files : f.suffix = ".epub" /\ (recursive \/ f.dir = <<>>)}

\* output_path / rel_path.with_suffix(".md")
OutputFile(rel_path) == [rel_path EXCEPT !.suffix = ".md"]

\* an argument of pandoc: [opt, value], the value a sequence of names
WrapNone == [opt |-> "--wrap", value |-> <<"none">>]

\* the configs batch_convert is given: without and with a list under
\* config["pandoc"]["extra_args"], with and without image extraction
Configs ==
    { [has_extra_args |-> h, extra_args |-> IF h THEN <<WrapNone>> ELSE <<>>,
       extract_images |-> x] : h \in BOOLEAN, x \in BOOLEAN }

\* images_dir = output_path.parent / "images"
ImagesDir(output_file) == output_file.dir \o <<"images">>

\* f"--extract-media={images_dir}"
ExtractMedia(output_file) ==
    [opt |-> "--extract-media", value |-> ImagesDir(output_file)]

\* convert_epub_to_markdown, from 'extra_args = config.get("pandoc",
\* {}).get("extra_args", ["--wrap=none"])' to the call of pandoc:
\* [config, extra_args].  With a list in the config, extra_args is that
\* list and append changes it in the config; without one it is the default,
\* a new list in every call.
PandocArgs(cfg, output_file) ==
    LET extra_args == IF cfg.has_extra_args THEN cfg.extra_args
                      ELSE <<WrapNone>>
        appended == IF cfg.extract_images
                    THEN Append(extra_args, ExtractMedia(output_file))
                    ELSE extra_args
    IN  [config |-> IF cfg.has_extra_args
                    THEN [cfg EXCEPT !.extra_args = appended]
                    ELSE cfg,
         extra_args |-> appended]

InitBatch ==
    /\ content = <<>>
    /\ parts = <<>>
    /\ outs = <<>>
    /\ pc = "batch_convert"
    /\ CleanIdle
    /\ LoopIdle
    /\ disk = [exists |-> FALSE, files |-> {}, dirs |-> {}]
    /\ FlattenIdle
    /\ image_stats = ZeroImageStats
    /\ metadata = <<>>
    /\ custom_fields = <<>>
    /\ batch_args \in [input_dir : InputDirs, recursive : BOOLEAN,
                       config : Configs]
    /\ config = batch_args.config
    /\ pandoc_calls = <<>>
    /\ epub_files = <<>>
    /\ conversion_tasks = <<>>
    /\ results = <<>>
    /\ failed_count = 0
    /\ batch_stats = NoFilesStats

batchFrame == <<content, parts, outs, cleanVars, loopVars, imageVars, frontVars>>

\* raise NotADirectoryError
RaiseNotADirectory ==
    /\ pc = "batch_convert"
    /\ batch_args.input_dir.kind # "dir"
    /\ pc' = "raised"
    /\ UNCHANGED <<batchFrame, batchVars>>

\* if not epub_files: return the dict of zeros
ReturnNoEpubFiles ==
    /\ pc = "batch_convert"
    /\ batch_args.input_dir.kind = "dir"
    /\ Glob(batch_args.input_dir, batch_args.recursive) = {}
    /\ batch_stats' = NoFilesStats
    /\ pc' = "return"
    /\ UNCHANGED <<batchFrame, batch_args, epub_files, conversion_tasks,
                   results, failed_count, config, pandoc_calls>>

\* epub_files = list(glob), then the loop that fills conversion_tasks
PrepareTasks ==
    /\ pc = "batch_convert"
    /\ batch_args.input_dir.kind = "dir"
    /\ Glob(batch_args.input_dir, batch_args.recursive) # {}
    /\ \E order \in Orders(Glob(batch_args.input_dir, batch_args.recursive)) :
          /\ epub_files' = order
          /\ conversion_tasks' =
                [k \in 1..Len(order) |->
                    [input_file |-> order[k], output_file |-> OutputFile(order[k])]]
    /\ results' = <<>>
    /\ failed_count' = 0
    /\ pc' = "convert"
    /\ UNCHANGED <<batchFrame, batch_args, batch_stats, config, pandoc_calls>>

\* the task the for loop is at
Task == conversion_tasks[Len(results) + 1]

\* the conversion of Task has reached the call of pandoc
CallPandoc ==
    LET call == PandocArgs(config, Task.output_file)
    IN  /\ config' = call.config
        /\ pandoc_calls' = Append(pandoc_calls,
              [input_file |-> Task.input_file, extra_args |-> call.extra_args])

\* try: convert_epub_to_markdown returns
ConvertReturns ==
    /\ pc = "convert"
    /\ Len(results) < Len(conversion_tasks)
    /\ CallPandoc
    /\ results' = Append(results,
          [input_file |-> Task.input_file, output_file |-> Task.output_file,
           success |-> TRUE])
    /\ UNCHANGED <<batchFrame, batch_args, epub_files, conversion_tasks,
                   failed_count, batch_stats, pc>>

\* except Exception, without the count of the failure
ConvertRaisesUncounted ==
    /\ pc = "convert"
    /\ Len(results) < Len(conversion_tasks)
    /\ \E e \in ErrorTexts :
          results' = Append(results,
              [input_file |-> Task.input_file, output_file |-> Task.output_file,
               error |-> e, success |-> FALSE])
    /\ \/ UNCHANGED <<config, pandoc_calls>>
       \/ CallPandoc
    /\ UNCHANGED <<batchFrame, batch_args, epub_files, conversion_tasks,
                   failed_count, batch_stats, pc>>

\* except Exception as e: count the failure, append the failure entry; the
\* conversion raised before its call of pandoc, or in it or after it
ConvertRaises ==
    /\ pc = "convert"
    /\ Len(results) < Len(conversion_tasks)
    /\ failed_count' = failed_count + 1
    /\ \E e \in ErrorTexts :
          results' = Append(results,
              [input_file |-> Task.input_file, output_file |-> Task.output_file,
               error |-> e, success |-> FALSE])
    /\ \/ UNCHANGED <<config, pandoc_calls>>
       \/ CallPandoc
    /\ UNCHANGED <<batchFrame, batch_args, epub_files, conversion_tasks,
                   batch_stats, pc>>

\* return the dict of counts and results
ReturnBatch ==
    /\ pc = "convert"
    /\ Len(results) = Len(conversion_tasks)
    /\ batch_stats' =
          [files_processed |-> Len(conversion_tasks),
           files_succeeded |-> Len(conversion_tasks) - failed_count,
           files_failed |-> failed_count,
           results |-> results]
    /\ pc' = "return"
    /\ UNCHANGED <<batchFrame, batch_args, epub_files, conversion_tasks,
                   results, failed_count, config, pandoc_calls>>

NextBatch ==
    \/ RaiseNotADirectory
    \/ ReturnNoEpubFiles
    \/ PrepareTasks
    \/ ConvertReturns
    \/ ConvertRaises
    \/ ReturnBatch

SpecBatch == InitBatch /\ [][NextBatch]_vars

\* the entries of the returned results whose success is False
FailedEntries ==
    {k \in 1..Len(batch_stats.results) : ~batch_stats.results[k].success}

\* C19: when batch_convert returns, whatever conversions raised, the results
\* hold one entry per discovered .epub file, in the order of the tasks, each
\* with success True or False; files_processed = files_succeeded +
\* files_failed; files_failed is the number of entries with success False.
C19_OneEntryPerFile ==
    pc = "return" =>
        /\ Len(batch_stats.results) = Len(epub_files)
        /\ Len(epub_files) =
              Cardinality(Glob(batch_args.input_dir, batch_args.recursive))
        /\ \A k \in 1..Len(epub_files) :
              /\ batch_stats.results[k].input_file = epub_files[k]
              /\ batch_stats.results[k].input_file = conversion_tasks[k].input_file
              /\ batch_stats.results[k].success \in BOOLEAN
        /\ batch_stats.files_processed = Len(epub_files)
        /\ batch_stats.files_processed =
              batch_stats.files_succeeded + batch_stats.files_failed
        /\ batch_stats.files_failed = Cardinality(FailedEntries)

\* C19 witness: of three files the second conversion raised and the third
\* was still converted.
C19_Witness ==
    /\ pc = "return"
    /\ Len(epub_files) = 3
    /\ FailedEntries = {2}
    /\ batch_stats.results[3].success
    /\ batch_stats.files_failed = 1
    /\ batch_stats.files_succeeded = 2

(***************************************************************************)
(* remove_div_blocks_from_content as a change of lines.                    *)
(***************************************************************************)
\* the text the n-th application was given
InputOf(n) == IF n = 1 THEN content ELSE outs[n - 1].text

IsMarkerLine(l) == IsOpenMarkerLine(l) \/ IsCloseMarkerLine(l)

\* the lines of s that are not a block marker by themselves, in order
RECURSIVE OtherLines(_)
OtherLines(ls) ==
    IF ls = <<>> THEN <<>>
    ELSE IF IsMarkerLine(Head(ls)) THEN OtherLines(Tail(ls))
    ELSE <<Head(ls)>> \o OtherLines(Tail(ls))

MarkerLineCount(s) ==
    Cardinality({k \in 1..Len(Lines(s)) : IsMarkerLine(Lines(s)[k])})

\* a occurs in b as a subsequence
RECURSIVE IsSubsequence(_, _)
IsSubsequence(a, b) ==
    IF a = <<>> THEN TRUE
    ELSE IF b = <<>> THEN FALSE
    ELSE IF Head(a) = Head(b) THEN IsSubsequence(Tail(a), Tail(b))
    ELSE IsSubsequence(a, Tail(b))

\* C20: remove_div_blocks_from_content deletes only the lines that are by
\* themselves an opening or a closing block marker: the other lines of the
\* input are in the output, unchanged and in their order, and the count is
\* the number of marker lines of the input.
C20_OnlyMarkerLinesDeleted ==
    pc = "remove_div_blocks_from_content" =>
        \A n \in 1..Len(outs) :
            /\ IsSubsequence(OtherLines(Lines(InputOf(n))), Lines(outs[n].text))
            /\ outs[n].count = MarkerLineCount(InputOf(n))

(***************************************************************************)
(* fix_all_image_paths on one image construct: optional indentation, the   *)
(* opening '![a](' of an image, a path of up to MaxPathTokens tokens       *)
(* (parentheses, '/', a directory, an image file), and an ending: nothing, *)
(* the closing ')', or the closing ')' followed by attributes, by a        *)
(* caption, or by a line of text.  parts is <<indentation, path, ending>>. *)
(***************************************************************************)
MaxPathTokens == 5

PathTokens == { <<"(">>, <<")">>, <<"/">>, <<"x">>, <<"b", ".", "p", "n", "g">> }

Indents == { <<>>, <<" ", " ">> }

ImageOpen == <<"!", "[", "a", "]", "(">>

Endings ==
    { <<>>, <<")">>, <<")", "{", "#", "i", "}">>, <<")", " ", "c", "a", "p">>,
      <<")", NL, " ", "t", " ">> }

InitPath ==
    /\ parts \in {<<i, p, e>> : i \in Indents,
                                p \in Texts(PathTokens, MaxPathTokens),
                                e \in Endings}
    /\ content = parts[1] \o ImageOpen \o parts[2] \o parts[3]
    /\ outs = <<>>
    /\ pc = "fix_all_image_paths"
    /\ CleanIdle
    /\ LoopIdle
    /\ OtherIdle

\* fix_all_image_paths(content): the whole loop and the join
FixAllImagePaths ==
    /\ pc = "fix_all_image_paths"
    /\ LET st == RunLoop(LoopStart, lines, 1)
       IN  /\ idx' = Len(lines)
           /\ fixed_lines' = st.fixed_lines
           /\ seen_images' = st.seen_images
           /\ last_was_image' = st.last_was_image
           /\ last_image_file' = st.last_image_file
           /\ outs' = <<[text |-> Join(st.fixed_lines, NL), count |-> 0]>>
    /\ pc' = "return"
    /\ UNCHANGED <<content, parts, cleanVars, otherVars>>

NextPath == FixAllImagePaths

SpecPath == InitPath /\ [][NextPath]_vars

(***************************************************************************)
(* The construct as its reader sees it.                                    *)
(***************************************************************************)
\* the first line of the input and of the output
FirstLine(s) == Lines(s)[1]

\* what follows '![a](' on the first line, without the line's outer spaces
RestOfLine == LET l == Strip(FirstLine(content))
              IN  SubSeq(l, Len(ImageOpen) + 1, Len(l))

CountIn(s, c, j) == Cardinality({k \in 1..j : s[k] = c})

\* the ')' that closes the construct: the first one with as many '(' as ')'
\* before it; 0 when the parentheses never balance
ClosingParen(s) ==
    LET closing == {j \in 1..Len(s) :
                       /\ s[j] = ")"
                       /\ CountIn(s, "(", j - 1) = CountIn(s, ")", j - 1)}
    IN  IF closing = {} THEN 0
        ELSE CHOOSE j \in closing : \A n \in closing : j <= n

\* the part of path after its last '/'
AfterLastSlash(path) ==
    LET slashes == {k \in 1..Len(path) : path[k] = "/"}
    IN  IF slashes = {} THEN path
        ELSE SubSeq(path, 1 + CHOOSE k \in slashes : \A n \in slashes : n <= k,
                    Len(path))

\* name is a file name with one of the image extensions
IsImageName(name) ==
    \E e \in image_extensions :
        /\ Len(name) > Len(e)
        /\ SubSeq(name, Len(name) - Len(e) + 1, Len(name)) = e

\* the path of the construct, up to the closing ')'
PathOfConstruct == SubSeq(RestOfLine, 1, ClosingParen(RestOfLine) - 1)

AfterConstruct ==
    SubSeq(RestOfLine, ClosingParen(RestOfLine) + 1, Len(RestOfLine))

\* C26: fix_all_image_paths changes nothing but the path of an image: a line
\* without a rewritten image is returned as it was, and a line with a
\* rewritten image keeps its alt text and the text that stood after the
\* image construct (outer whitespace apart).
C26_OnlyPathsChanged ==
    (pc = "return" /\ outs # <<>>) =>
        LET im == ImageLine(FirstLine(content))
        IN  /\ Len(Lines(outs[1].text)) = Len(Lines(content))
            /\ \A k \in 2..Len(Lines(content)) :
                  Lines(outs[1].text)[k] = Lines(content)[k]
            /\ ~im.image => FirstLine(outs[1].text) = FirstLine(content)
            /\ im.image =>
                  Strip(FirstLine(outs[1].text)) =
                      Strip(<<"!", "[">> \o im.alt_text \o <<"]", "(", ".", "/", "i", "m", "a", "g", "e", "s", "/">>
                            \o im.filename \o <<")">> \o AfterConstruct)

(***************************************************************************)
(* final_cleanup on its own: documents of up to MaxFinalLines lines, each  *)
(* a separator of escaped asterisks, a separator of spaced asterisks, an   *)
(* image alone (two alt texts for one path), an image followed by text,    *)
(* text, or a blank line.                                                  *)
(***************************************************************************)
MaxFinalLines == 5

EscapedSeparator == <<"\\", "*", "\\", "*">>
SpacedSeparator == <<"*", " ", "*", "*", " ", "*", "*">>
ImageA == <<"!", "[", "a", "]", "(", "b", ")">>
ImageC == <<"!", "[", "c", "]", "(", "b", ")">>
ImageWithText == <<"!", "[", "a", "]", "(", "b", ")", " ", "t">>

FinalLines ==
    {EscapedSeparator, SpacedSeparator, ImageA, ImageC, ImageWithText,
     <<"t">>, <<>>}

FinalDocs == {Join(ls, NL) : ls \in LineSeqs(FinalLines, MaxFinalLines)}

InitFinal ==
    /\ content \in FinalDocs
    /\ parts = <<>>
    /\ outs = <<>>
    /\ pc = "final_cleanup"
    /\ CleanIdle
    /\ LoopIdle
    /\ OtherIdle

ApplyFinal ==
    /\ pc = "final_cleanup"
    /\ outs' = <<[text |-> final_cleanup(content), count |-> 0]>>
    /\ pc' = "return"
    /\ UNCHANGED <<content, parts, cleanVars, loopVars, otherVars>>

NextFinal == ApplyFinal

SpecFinal == InitFinal /\ [][NextFinal]_vars

\* how many lines of s are the line l
LineCount(s, l) == Cardinality({k \in 1..Len(Lines(s)) : Lines(s)[k] = l})

\* a line solely of backslash-escaped asterisks, or of five asterisks
\* separated by optional spaces
IsSeparatorLine(l) == l \in {EscapedSeparator, SpacedSeparator}

\* C22: every line of the input that is solely escaped asterisks, or solely
\* five asterisks with optional spaces between them, stands as a line '---'
\* in the text final_cleanup returns.
C22_SeparatorsBecomeRules ==
    (pc = "return" /\ outs # <<>>) =>
        LineCount(outs[1].text, <<"-", "-", "-">>) =
            Cardinality({k \in 1..Len(Lines(content)) :
                            IsSeparatorLine(Lines(content)[k])})

\* a line that is an image and nothing else
IsImageAlone(l) == l \in {ImageA, ImageC}

\* C23: of the lines that are an image alone, the first of each distinct
\* line is kept and only its exact duplicates are dropped, so each such line
\* of the input stands once in the output; a line with an image and other
\* text is never dropped.
C23_OnlyExactDuplicatesDropped ==
    (pc = "return" /\ outs # <<>>) =>
        /\ \A l \in {ImageA, ImageC} :
              LineCount(content, l) > 0 => LineCount(outs[1].text, l) = 1
        /\ LineCount(outs[1].text, ImageWithText) =
              LineCount(content, ImageWithText)

\* the lines ls with every run of three or more blank lines cut to two
RECURSIVE CollapseBlankRuns(_, _)
CollapseBlankRuns(ls, run) ==
    IF ls = <<>> THEN <<>>
    ELSE IF Head(ls) = <<>>
         THEN IF run >= 2 THEN CollapseBlankRuns(Tail(ls), run + 1)
              ELSE <<Head(ls)>> \o CollapseBlankRuns(Tail(ls), run + 1)
    ELSE <<Head(ls)>> \o CollapseBlankRuns(Tail(ls), 0)

\* a document of text and blank lines only, from a line of text to a line
\* of text
OnlyTextAndBlank(s) ==
    /\ \A k \in 1..Len(Lines(s)) : Lines(s)[k] \in {<<"t">>, <<>>}
    /\ Lines(s)[1] = <<"t">>
    /\ Lines(s)[Len(Lines(s))] = <<"t">>

\* C24: in the text final_cleanup returns, every run of three or more blank
\* lines of the input is two blank lines and a run of one or two blank lines
\* is as it was (on documents of text and blank lines between two lines of
\* text, which no other part of final_cleanup changes).
C24_BlankRunsCollapsedToTwo ==
    (pc = "return" /\ outs # <<>> /\ OnlyTextAndBlank(content)) =>
        Lines(outs[1].text) = CollapseBlankRuns(Lines(content), 0)

\* the --extract-media arguments of the k-th call of pandoc
MediaArgs(k) ==
    {j \in 1..Len(pandoc_calls[k].extra_args) :
        pandoc_calls[k].extra_args[j].opt = "--extract-media"}

\* C25: the conversions never modify the config they share: whatever
\* conversions have run, config["pandoc"]["extra_args"] is as batch_convert
\* was given it, and (with image extraction) every call of pandoc has one
\* --extract-media argument, that of its own images directory.
C25_ConfigNeverModified ==
    /\ config = batch_args.config
    /\ \A k \in 1..Len(pandoc_calls) :
          batch_args.config.extract_images =>
              /\ Cardinality(MediaArgs(k)) = 1
              /\ \A j \in MediaArgs(k) :
                    pandoc_calls[k].extra_args[j].value =
                        ImagesDir(OutputFile(pandoc_calls[k].input_file))

=============================================================================
